---- MODULE Spec2Model ----
(***************************************************************************)
(* Job state machine and checkpoint/resume engine of the translation       *)
(* service (translation-service/app/main.py), for one job id.              *)
(*                                                                         *)
(* The in-memory job (jobs_storage[job_id]), its job.json on disk, the     *)
(* artifact files under the job's output directory and the background      *)
(* tasks of the asyncio event loop are the state.  A background task runs  *)
(* synchronously (holding the event loop) until it finishes or reaches a   *)
(* real suspension point; request handlers run only while the loop is      *)
(* free.  A process restart can happen at any point.                       *)
(***************************************************************************)
EXTENDS Integers, Sequences, FiniteSets, TLC

VARIABLES jobs_storage, disk_job, files, tasks, loop, last_retry, events,
          regens, last_regen, chunk_dir, tr, input, output

\* background regenerations of the job and the answer to the last request
regen_vars == <<regens, last_regen>>

\* the translation chunk directory and the run of the translation service
translate_vars == <<chunk_dir, tr>>

\* the argument and the result of a service function called on its own
call_vars == <<input, output>>

vars == <<jobs_storage, disk_job, files, tasks, loop, last_retry, events,
          regen_vars, translate_vars, call_vars>>

\* ------------------------------------------------------------------ bounds
\* background tasks scheduled in one behaviour
MaxTasks == 2
\* restarts, removed artifacts and injected test failures in one behaviour
MaxEvents == 1
\* regeneration requests accepted in one behaviour
MaxRegens == 2
\* chunks the transcript splits into, and runs of the translation service
MaxChunks == 3
MaxRuns == 2
\* dialogue segments of a transcript given to the speech service
MaxSegments == 3
\* lines of a text given to the cleaning service
MaxLines == 3
\* lines of a transcript given to the splitter, and sentences in a line
MaxTurns == 2
MaxSentences == 2

\* ------------------------------------------------------- statuses and steps
Steps == 1..7

StepStatus ==
  <<"PREPROCESSING_AUDIO", "TRANSCRIBING_SOURCE", "FORMATTING_SOURCE_TEXT",
    "TRANSLATING_TO_TARGET", "MERGING_TARGET_CHUNKS", "CLEANING_TARGET_TEXT",
    "GENERATING_TARGET_AUDIO">>

FailedStepStatus ==
  <<"FAILED_PREPROCESSING_AUDIO", "FAILED_TRANSCRIBING_SOURCE",
    "FAILED_FORMATTING_SOURCE_TEXT", "FAILED_TRANSLATING_TO_TARGET",
    "FAILED_MERGING_TARGET_CHUNKS", "FAILED_CLEANING_TARGET_TEXT",
    "FAILED_GENERATING_TARGET_AUDIO">>

JobStatus ==
  {"UPLOADED", "COMPLETED", "FAILED"}
    \cup {StepStatus[k] : k \in Steps} \cup {FailedStepStatus[k] : k \in Steps}

\* variant: transcription is entered with a progress below the one
\* preprocessing ended with
progress_on_entry_low == <<5, 10, 45, 55, 75, 82, 90>>

\* progress written when a step is entered, and after it returned
progress_on_entry == <<5, 20, 45, 55, 75, 82, 90>>
progress_on_success == <<15, 40, 50, 70, 80, 85, 100>>

\* ------------------------------------------------------------- artifacts
PathFields ==
  {"processed_audio_dir", "chunks_dir", "raw_transcript_path",
   "formatted_transcript_path", "translation_chunks_dir",
   "merged_target_path", "clean_target_path", "audio_output_dir",
   "final_target_audio_path"}

\* the path fields a step assigns when its call returned
Produced(k) ==
  CASE k = 1 -> {"processed_audio_dir", "chunks_dir"}
    [] k = 2 -> {"raw_transcript_path"}
    [] k = 3 -> {"formatted_transcript_path"}
    [] k = 4 -> {"translation_chunks_dir"}
    [] k = 5 -> {"merged_target_path"}
    [] k = 6 -> {"clean_target_path"}
    [] k = 7 -> {"audio_output_dir", "final_target_audio_path"}

\* the job field a step passes to its service as the input
\* variant: audio generation reads the merged transcript
InputOf_merged_to_tts(k) ==
  CASE k = 1 -> "original_file_path"
    [] k = 2 -> "chunks_dir"
    [] k = 3 -> "raw_transcript_path"
    [] k = 4 -> "formatted_transcript_path"
    [] k = 5 -> "translation_chunks_dir"
    [] k = 6 -> "merged_target_path"
    [] k = 7 -> "merged_target_path"

InputOf(k) ==
  CASE k = 1 -> "original_file_path"
    [] k = 2 -> "chunks_dir"
    [] k = 3 -> "raw_transcript_path"
    [] k = 4 -> "formatted_transcript_path"
    [] k = 5 -> "translation_chunks_dir"
    [] k = 6 -> "merged_target_path"
    [] k = 7 -> "clean_target_path"

\* what a service leaves on disk when it raises: preprocess_audio and
\* generate_audio create their output directories before reading the input
PartialOnFail(k) ==
  CASE k = 1 -> {"processed_audio_dir", "chunks_dir"}
    [] k = 7 -> {"audio_output_dir"}
    [] OTHER -> {}

\* chunks_dir lies inside processed_audio_dir
Remove(fs, f) ==
  IF f = "processed_audio_dir" THEN fs \ {"processed_audio_dir", "chunks_dir"}
  ELSE fs \ {f}

\* ------------------------------------------------------------ job records
None == <<"None", 0, "">>
Text(kind, k, what) == <<kind, k, what>>

NoJob ==
  [status |-> "ABSENT", progress |-> 0, message |-> Text("", 0, ""),
   error_message |-> None, paths |-> {}, audio_versions |-> <<>>,
   source_language |-> "", target_language |-> ""]

\* TranslationJob(...) as upload_audio_file constructs it
TranslationJob(src, tgt) ==
  [status |-> "UPLOADED", progress |-> 0, message |-> Text("", 0, ""),
   error_message |-> None, paths |-> {}, audio_versions |-> <<>>,
   source_language |-> src, target_language |-> tgt]

\* os.path.exists(job.<field>) guarded by the field being set
Present(job, fs, f) == f \in job.paths /\ f \in fs


\* JSON round trip of save_job_to_disk / load_job_from_disk: every modelled
\* field is written and read back as it is (status by its enum value)
save_job_to_disk(job) == job

HasDir(fs) == "chunks_dir" \in fs => "processed_audio_dir" \in fs

\* ------------------------------------------------------- resume resolver
\* variant: two entries of the table exchanged
failure_to_resume_map_swapped ==
  ("FAILED_PREPROCESSING_AUDIO" :> "PREPROCESSING_AUDIO")
    @@ ("FAILED_TRANSCRIBING_SOURCE" :> "TRANSCRIBING_SOURCE")
    @@ ("FAILED_FORMATTING_SOURCE_TEXT" :> "FORMATTING_SOURCE_TEXT")
    @@ ("FAILED_TRANSLATING_TO_TARGET" :> "TRANSLATING_TO_TARGET")
    @@ ("FAILED_MERGING_TARGET_CHUNKS" :> "CLEANING_TARGET_TEXT")
    @@ ("FAILED_CLEANING_TARGET_TEXT" :> "MERGING_TARGET_CHUNKS")
    @@ ("FAILED_GENERATING_TARGET_AUDIO" :> "GENERATING_TARGET_AUDIO")

failure_to_resume_map ==
  ("FAILED_PREPROCESSING_AUDIO" :> "PREPROCESSING_AUDIO")
    @@ ("FAILED_TRANSCRIBING_SOURCE" :> "TRANSCRIBING_SOURCE")
    @@ ("FAILED_FORMATTING_SOURCE_TEXT" :> "FORMATTING_SOURCE_TEXT")
    @@ ("FAILED_TRANSLATING_TO_TARGET" :> "TRANSLATING_TO_TARGET")
    @@ ("FAILED_MERGING_TARGET_CHUNKS" :> "MERGING_TARGET_CHUNKS")
    @@ ("FAILED_CLEANING_TARGET_TEXT" :> "CLEANING_TARGET_TEXT")
    @@ ("FAILED_GENERATING_TARGET_AUDIO" :> "GENERATING_TARGET_AUDIO")

\* variant: the cleaned transcript is probed after the merged one
probe_artifacts_misordered(job, fs) ==
  IF Present(job, fs, "final_target_audio_path") THEN "COMPLETED"
  ELSE IF Present(job, fs, "merged_target_path") THEN "CLEANING_TARGET_TEXT"
  ELSE IF Present(job, fs, "clean_target_path") THEN "GENERATING_TARGET_AUDIO"
  ELSE IF Present(job, fs, "translation_chunks_dir") THEN "MERGING_TARGET_CHUNKS"
  ELSE IF Present(job, fs, "formatted_transcript_path") THEN "TRANSLATING_TO_TARGET"
  ELSE IF Present(job, fs, "raw_transcript_path") THEN "FORMATTING_SOURCE_TEXT"
  ELSE IF Present(job, fs, "chunks_dir") THEN "TRANSCRIBING_SOURCE"
  ELSE IF Present(job, fs, "processed_audio_dir") THEN "PREPROCESSING_AUDIO"
  ELSE "UPLOADED"

\* file-based detection, newest artifact first
probe_artifacts(job, fs) ==
  IF Present(job, fs, "final_target_audio_path") THEN "COMPLETED"
  ELSE IF Present(job, fs, "clean_target_path") THEN "GENERATING_TARGET_AUDIO"
  ELSE IF Present(job, fs, "merged_target_path") THEN "CLEANING_TARGET_TEXT"
  ELSE IF Present(job, fs, "translation_chunks_dir") THEN "MERGING_TARGET_CHUNKS"
  ELSE IF Present(job, fs, "formatted_transcript_path") THEN "TRANSLATING_TO_TARGET"
  ELSE IF Present(job, fs, "raw_transcript_path") THEN "FORMATTING_SOURCE_TEXT"
  ELSE IF Present(job, fs, "chunks_dir") THEN "TRANSCRIBING_SOURCE"
  ELSE IF Present(job, fs, "processed_audio_dir") THEN "PREPROCESSING_AUDIO"
  ELSE "UPLOADED"

determine_resume_point(job, fs) ==
  IF job.status \in DOMAIN failure_to_resume_map
  THEN failure_to_resume_map[job.status]
  ELSE probe_artifacts(job, fs)

\* ------------------------------------------------------ the step sequence
\* variant: COMPLETED is listed with the resume points of the last step
resume_list_with_completed(k) ==
  {"UPLOADED"} \cup {StepStatus[i] : i \in 1..k}
    \cup (IF k = 7 THEN {"COMPLETED"} ELSE {})

\* variant: each list also names the resume point of the following step
resume_list_one_more(k) ==
  {"UPLOADED"} \cup {StepStatus[i] : i \in 1..k}
    \cup (IF k < 7 THEN {StepStatus[k + 1]} ELSE {})

\* the list of resume points under which step k is executed
resume_list(k) == {"UPLOADED"} \cup {StepStatus[i] : i \in 1..k}

\* the first step at or after k whose guard admits resume_from; 8 = none
RECURSIVE NextStep(_, _)
NextStep(resume_from, k) ==
  IF k > 7 THEN 8
  ELSE IF resume_from \in resume_list(k) THEN k
  ELSE NextStep(resume_from, k + 1)

\* whether the call expression of step k binds to a method of its service:
\* transcribe_chunks is defined with two parameters and called with three,
\* TranslationService defines no translate_text, TextCleaningService no
\* clean_text; these calls raise TypeError / AttributeError inside the
\* step's try block
CallBinds(k) == k \notin {2, 4, 6}

\* services whose coroutine really suspends (asyncio.sleep between units)
Suspends(k) == k \in {2, 4, 7}

InputAvailable(job, fs, k) ==
  IF k = 1 THEN "original_file_path" \in fs ELSE Present(job, fs, InputOf(k))

EnterStep(job, k) ==
  [job EXCEPT !.status = StepStatus[k],
              !.progress = progress_on_entry[k],
              !.message = Text("step", k, "")]

StepSuccess(job, k) ==
  [job EXCEPT !.paths = @ \cup Produced(k),
              !.progress = progress_on_success[k]]

\* variant: the handler of a step parks the job in the generic status
StepFailure_generic(job, k, e) ==
  [job EXCEPT !.status = "FAILED",
              !.error_message = Text("exc", k, e),
              !.message = Text("failed", k, e)]

StepFailure(job, k, e) ==
  [job EXCEPT !.status = FailedStepStatus[k],
              !.error_message = Text("exc", k, e),
              !.message = Text("failed", k, e)]

MarkCompleted(job) ==
  [job EXCEPT !.status = "COMPLETED", !.message = Text("completed", 0, "")]

\* variant: no handler around the whole function; the exception leaves the
\* job as the run found it
GenericFailure_unhandled(job, e) == job

\* variant: the outer except block sets the status and the message only
GenericFailure_no_error(job, e) ==
  [job EXCEPT !.status = "FAILED", !.message = Text("failed", 0, e)]

\* the outer except block
GenericFailure(job, e) ==
  [job EXCEPT !.status = "FAILED",
              !.error_message = Text("exc", 0, e),
              !.message = Text("failed", 0, e)]

\* ------------------------------------------------------- background tasks
NewTask(is_retry) ==
  [st |-> "pending", is_retry |-> is_retry, resume_from |-> "", seen |-> "",
   step |-> 0, susp |-> FALSE, ran |-> <<>>, invoked |-> {},
   trace |-> <<>>, end |-> ""]

Ended(tk, how) == [tk EXCEPT !.st = "done", !.step = 0, !.susp = FALSE, !.end = how]

\* control reaches the guard of step k (k = 8: the code after the last
\* step) and runs on to the next point at which the task waits for a
\* service or returns
Arrive(job, dsk, fs, tk, k) ==
  LET n == NextStep(tk.resume_from, k) IN
  IF n = 8
  THEN [job |-> MarkCompleted(job),
        disk |-> save_job_to_disk(MarkCompleted(job)),
        files |-> fs,
        task |-> Ended([tk EXCEPT !.trace = Append(@, "COMPLETED")], "completed")]
  ELSE
    LET entered == EnterStep(job, n)
        tk1 == [tk EXCEPT !.ran = Append(@, n),
                          !.trace = Append(@, StepStatus[n])]
        tkF == [tk1 EXCEPT !.trace = Append(@, FailedStepStatus[n])]
    IN
    IF ~CallBinds(n)
    THEN [job |-> StepFailure(entered, n, "bind"),
          disk |-> save_job_to_disk(StepFailure(entered, n, "bind")),
          files |-> fs,
          task |-> Ended(tkF, "bind")]
    ELSE IF ~InputAvailable(entered, fs, n)
    THEN [job |-> StepFailure(entered, n, "input"),
          disk |-> save_job_to_disk(StepFailure(entered, n, "input")),
          files |-> fs \cup PartialOnFail(n),
          task |-> Ended([tkF EXCEPT !.invoked = @ \cup {n}], "input")]
    ELSE [job |-> entered, disk |-> dsk, files |-> fs,
          task |-> [tk1 EXCEPT !.st = "calling", !.step = n,
                               !.invoked = @ \cup {n}]]

Holder(t, tk) == IF tk.st = "calling" THEN t ELSE 0


\* ---------------------------------------------------------------- requests
\* last_retry: the HTTP status of the latest answer of retry_job (0: none)

valid_languages == {"en", "ja"}
LanguageInputs == {"en", "ja", "fr"}

\* variant: everything but COMPLETED may be retried
failed_status_values_not_completed == JobStatus \ {"COMPLETED"}

failed_status_values == {"FAILED"} \cup {FailedStepStatus[k] : k \in Steps}

failure_mapping ==
  ("preprocessing" :> "FAILED_PREPROCESSING_AUDIO")
    @@ ("transcription" :> "FAILED_TRANSCRIBING_SOURCE")
    @@ ("formatting" :> "FAILED_FORMATTING_SOURCE_TEXT")
    @@ ("translation" :> "FAILED_TRANSLATING_TO_TARGET")
    @@ ("merging" :> "FAILED_MERGING_TARGET_CHUNKS")
    @@ ("cleaning" :> "FAILED_CLEANING_TARGET_TEXT")
    @@ ("audio_generation" :> "FAILED_GENERATING_TARGET_AUDIO")
    @@ ("generic" :> "FAILED")

progress_mapping ==
  ("preprocessing" :> 10) @@ ("transcription" :> 30) @@ ("formatting" :> 50)
    @@ ("translation" :> 65) @@ ("merging" :> 78) @@ ("cleaning" :> 83)
    @@ ("audio_generation" :> 95) @@ ("generic" :> 50)

\* jobs_storage[job_id], falling back to load_job_from_disk
Lookup == IF jobs_storage # NoJob THEN jobs_storage ELSE disk_job

\* -------------------------------------------------- job.json found at import
PathsUpTo(k) == UNION {Produced(i) : i \in 1..k}

Stored(status, progress, k, err, msg) ==
  [status |-> status, progress |-> progress, message |-> msg,
   error_message |-> err, paths |-> PathsUpTo(k), audio_versions |-> <<>>,
   source_language |-> "en", target_language |-> "ja"]

\* the records process_translation_job and upload_audio_file write at their
\* save points, with the artifact files they go with: saved after upload or
\* after step k returned, saved by the handler of step k, saved at the end,
\* and saved by the outer handler of a retry of a job that failed at step k
StoredJobs ==
  {[job |-> Stored("UPLOADED", 0, 0, None, Text("", 0, "")), extra |-> {}]}
    \cup {[job |-> Stored(StepStatus[k], progress_on_success[k], k, None,
                          Text("step", k, "")),
           extra |-> {}] : k \in Steps}
    \cup {[job |-> Stored(FailedStepStatus[k], progress_on_entry[k], k - 1,
                          Text("exc", k, "engine"), Text("failed", k, "engine")),
           extra |-> PartialOnFail(k)] : k \in Steps}
    \cup {[job |-> Stored("COMPLETED", 100, 7, None, Text("completed", 0, "")),
           extra |-> {}]}
    \cup {[job |-> Stored("FAILED", progress_on_entry[k], k - 1,
                          Text("exc", 0, "ctor"), Text("failed", 0, "ctor")),
           extra |-> PartialOnFail(k)] : k \in Steps}

\* the answer to a regeneration request, with the request when accepted
Answer(code, source, rate, content) ==
  [code |-> code, source |-> source, rate |-> rate, content |-> content]

\* no service function was called on its own
NotCalled == [done |-> FALSE]
NoCall == input = NotCalled /\ output = NotCalled

\* no regeneration was requested
NoRegens == regens = <<>> /\ last_regen = Answer(0, "", 0, "")

\* the translation service has not run: the chunk directory is empty
EmptyDir == [i \in 1..MaxChunks |-> [ok |-> 0, err |-> 0]]

\* st: idle, running (awaiting the translator for chunk idx, attempt
\* attempt), returned, raised; n: chunks of the transcript; had: chunks with
\* a file when the run began; called: chunks sent to the translator in the
\* run; exhausted: chunks whose attempts all failed in the run; merge,
\* merged: outcome of the merge that followed and the chunks it read
IdleRun ==
  [st |-> "idle", run |-> 0, n |-> 0, idx |-> 0, attempt |-> 0,
   had |-> {}, called |-> {}, exhausted |-> {}, merged |-> <<>>, merge |-> ""]

NoTranslation == chunk_dir = EmptyDir /\ tr = IdleRun

\* load_all_jobs_from_disk at module import
Init ==
  /\ \/ /\ jobs_storage = NoJob
        /\ files = {}
     \/ \E s \in StoredJobs :
          /\ jobs_storage = s.job
          /\ files = {"original_file_path"} \cup s.job.paths \cup s.extra
  /\ disk_job = jobs_storage
  /\ tasks = <<>>
  /\ loop = 0
  /\ last_retry = 0
  /\ events = 0
  /\ NoRegens
  /\ NoCall
  /\ NoTranslation
    
\* ---------------------------------------------------------------- handlers
\* variant: the two languages are not compared
languages_valid_same_allowed(src, tgt) ==
  src \in valid_languages /\ tgt \in valid_languages

\* the three language checks of upload_audio_file
languages_valid(src, tgt) ==
  src \in valid_languages /\ tgt \in valid_languages /\ src # tgt

upload_audio_file(src, tgt, typeOk) ==
  /\ loop = 0
  /\ jobs_storage = NoJob
  /\ Len(tasks) < MaxTasks
  /\ IF ~languages_valid(src, tgt) \/ ~typeOk
     THEN UNCHANGED <<jobs_storage, disk_job, files, tasks>>
     ELSE /\ jobs_storage' = TranslationJob(src, tgt)
          /\ disk_job' = save_job_to_disk(TranslationJob(src, tgt))
          /\ files' = files \cup {"original_file_path"}
          /\ tasks' = Append(tasks, NewTask(FALSE))
  /\ UNCHANGED <<loop, last_retry, events>>
  /\ UNCHANGED <<regen_vars, call_vars, translate_vars>>

retry_job ==
  /\ loop = 0
  /\ IF Lookup = NoJob
     THEN /\ last_retry' = 404
          /\ UNCHANGED <<jobs_storage, disk_job, tasks>>
     ELSE IF Lookup.status \notin failed_status_values
     THEN /\ last_retry' = 400
          /\ jobs_storage' = Lookup
          /\ UNCHANGED <<disk_job, tasks>>
     ELSE LET job == [Lookup EXCEPT !.error_message = None,
                                    !.message = Text("retrying", 0, "")]
          IN /\ Len(tasks) < MaxTasks
             /\ jobs_storage' = job
             /\ disk_job' = save_job_to_disk(job)
             /\ tasks' = Append(tasks, NewTask(TRUE))
             /\ last_retry' = 200
  /\ UNCHANGED <<files, loop, events>>
  /\ UNCHANGED <<regen_vars, call_vars, translate_vars>>

\* test_mode: TEST_MODE=true in the environment of the process
simulate_job_failure(failure_step, test_mode) ==
  /\ loop = 0
  /\ IF ~test_mode \/ Lookup = NoJob
     THEN UNCHANGED <<jobs_storage, disk_job, events>>
     ELSE IF failure_step \notin DOMAIN failure_mapping
     THEN /\ jobs_storage' = Lookup
          /\ UNCHANGED <<disk_job, events>>
     ELSE LET job == [Lookup EXCEPT
                        !.status = failure_mapping[failure_step],
                        !.error_message = Text("test", 0, failure_step),
                        !.message = Text("test", 0, failure_step),
                        !.progress = progress_mapping[failure_step]]
          IN /\ events < MaxEvents
             /\ events' = events + 1
             /\ jobs_storage' = job
             /\ disk_job' = save_job_to_disk(job)
  /\ UNCHANGED <<files, tasks, loop, last_retry>>
  /\ UNCHANGED <<regen_vars, call_vars, translate_vars>>

\* ------------------------------------------------ process_translation_job
\* from the start of the task to its first wait or its return;
\* services_ok: the seven service constructors return (API keys and
\* credentials are configured)
process_translation_job(t, services_ok) ==
  /\ loop = 0
  /\ tasks[t].st = "pending"
  \* the loop starts background tasks in the order add_task queued them
  /\ \A u \in 1..(t - 1) : tasks[u].st # "pending"
  /\ LET tk == tasks[t]
         resume_from == IF tk.is_retry
                        THEN determine_resume_point(jobs_storage, files)
                        ELSE "UPLOADED"
         job == IF tk.is_retry
                THEN [jobs_storage EXCEPT !.message = Text("retrying_from", 0, resume_from)]
                ELSE jobs_storage
         tk0 == [tk EXCEPT !.resume_from = resume_from,
                           !.seen = jobs_storage.status]
         r == IF services_ok
              THEN Arrive(job, disk_job, files, tk0, 1)
              ELSE [job |-> GenericFailure(job, "ctor"),
                    disk |-> save_job_to_disk(GenericFailure(job, "ctor")),
                    files |-> files,
                    task |-> Ended([tk0 EXCEPT !.trace = Append(@, "FAILED")], "ctor")]
     IN /\ jobs_storage' = r.job
        /\ disk_job' = r.disk
        /\ files' = r.files
        /\ tasks' = [tasks EXCEPT ![t] = r.task]
        /\ loop' = Holder(t, r.task)
  /\ UNCHANGED <<last_retry, events>>
  /\ UNCHANGED <<regen_vars, call_vars, translate_vars>>

\* the awaited service coroutine reaches asyncio.sleep: the loop is free
service_sleeps(t) ==
  /\ loop = t
  /\ tasks[t].st = "calling"
  /\ Suspends(tasks[t].step)
  /\ ~tasks[t].susp
  /\ tasks' = [tasks EXCEPT ![t].susp = TRUE]
  /\ loop' = 0
  /\ UNCHANGED <<jobs_storage, disk_job, files, last_retry, events>>
  /\ UNCHANGED <<regen_vars, call_vars, translate_vars>>

\* the awaited service call returns: the rest of the step, then on to the
\* next wait or the return of the task
service_returns(t) ==
  /\ tasks[t].st = "calling"
  /\ loop = t \/ (loop = 0 /\ tasks[t].susp)
  /\ LET tk == [tasks[t] EXCEPT !.susp = FALSE]
         k == tk.step
         job == StepSuccess(jobs_storage, k)
         r == Arrive(job, save_job_to_disk(job), files \cup Produced(k), tk, k + 1)
     IN /\ jobs_storage' = r.job
        /\ disk_job' = r.disk
        /\ files' = r.files
        /\ tasks' = [tasks EXCEPT ![t] = r.task]
        /\ loop' = Holder(t, r.task)
  /\ UNCHANGED <<last_retry, events>>
  /\ UNCHANGED <<regen_vars, call_vars, translate_vars>>

\* the awaited service call raises: the except block of the step
service_raises(t) ==
  /\ tasks[t].st = "calling"
  /\ loop = t \/ (loop = 0 /\ tasks[t].susp)
  /\ LET tk == tasks[t]
         k == tk.step
         job == StepFailure(jobs_storage, k, "engine")
     IN /\ jobs_storage' = job
        /\ disk_job' = save_job_to_disk(job)
        /\ files' = files \cup PartialOnFail(k)
        /\ tasks' = [tasks EXCEPT ![t] =
                       Ended([tk EXCEPT !.trace = Append(@, FailedStepStatus[k])], "engine")]
        /\ loop' = 0
  /\ UNCHANGED <<last_retry, events>>
  /\ UNCHANGED <<regen_vars, call_vars, translate_vars>>

\* ------------------------------------------------------------- environment
\* the process is stopped and started again: background tasks are gone and
\* load_all_jobs_from_disk reads job.json
Restart ==
  /\ events < MaxEvents
  /\ events' = events + 1
  /\ jobs_storage' = disk_job
  /\ tasks' = [t \in DOMAIN tasks |->
                 IF tasks[t].st \in {"pending", "calling"}
                 THEN [tasks[t] EXCEPT !.st = "lost"] ELSE tasks[t]]
  /\ loop' = 0
  /\ regens' = [r \in DOMAIN regens |->
                  IF regens[r].st \in {"pending", "calling"}
                  THEN [regens[r] EXCEPT !.st = "lost", !.susp = FALSE]
                  ELSE regens[r]]
  /\ UNCHANGED <<disk_job, files, last_retry, last_regen, translate_vars, call_vars>>

\* an artifact is removed from the output directory by something else
DeleteArtifact(f) ==
  /\ events < MaxEvents
  /\ f \in files
  /\ events' = events + 1
  /\ files' = Remove(files, f)
  /\ UNCHANGED <<jobs_storage, disk_job, tasks, loop, last_retry>>
  /\ UNCHANGED <<regen_vars, call_vars, translate_vars>>

\* failure_step values sent to the test endpoint: the first and the last step,
\* the generic failure and a name the endpoint does not know
FailureStepInputs == {"preprocessing", "audio_generation", "generic", "bogus"}

Next ==
  \/ \E src \in LanguageInputs, tgt \in LanguageInputs, typeOk \in BOOLEAN :
       upload_audio_file(src, tgt, typeOk)
  \/ retry_job
  \/ \E s \in FailureStepInputs, test_mode \in BOOLEAN : simulate_job_failure(s, test_mode)
  \/ \E t \in DOMAIN tasks, services_ok \in BOOLEAN : process_translation_job(t, services_ok)
  \/ \E t \in DOMAIN tasks : service_sleeps(t)
  \/ \E t \in DOMAIN tasks : service_returns(t)
  \/ \E t \in DOMAIN tasks : service_raises(t)
  \/ Restart
  \/ \E f \in PathFields \cup {"original_file_path"} : DeleteArtifact(f)

Spec == Init /\ [][Next]_vars

TypeOK ==
  /\ jobs_storage.status \in JobStatus \cup {"ABSENT"}
  /\ jobs_storage.paths \subseteq PathFields
  /\ jobs_storage.progress \in 0..100
  /\ files \subseteq PathFields \cup {"original_file_path"}
  /\ HasDir(files)
  /\ Len(tasks) <= MaxTasks
  /\ loop \in 0..Len(tasks)
  /\ loop # 0 => tasks[loop].st = "calling" /\ ~tasks[loop].susp


\* ------------------------------------------- the resolver over all records
\* a retry task about to start on any job record that load_job_from_disk
\* accepts, with any of its recorded artifacts missing from the disk
InitResolve ==
  /\ \E st \in JobStatus, ps \in SUBSET PathFields :
       \E fs \in SUBSET ps :
         /\ jobs_storage = [status |-> st, progress |-> 50,
                            message |-> Text("retrying", 0, ""),
                            error_message |-> None, paths |-> ps,
                            audio_versions |-> <<>>,
                            source_language |-> "en", target_language |-> "ja"]
         /\ files = {"original_file_path"} \cup fs
                      \cup (IF "chunks_dir" \in fs THEN {"processed_audio_dir"} ELSE {})
  /\ disk_job = jobs_storage
  /\ tasks = <<NewTask(TRUE)>>
  /\ loop = 0
  /\ last_retry = 200
  /\ events = 0
  /\ NoRegens
  /\ NoCall
  /\ NoTranslation
    
NextResolve == \E services_ok \in BOOLEAN : process_translation_job(1, services_ok)

SpecResolve == InitResolve /\ [][NextResolve]_vars

\* ------------------------------------------- translation service, by chunk
\* TRANSLATION_MAX_RETRIES, default
max_retries == 4

\* variant: the success file is not looked for
FirstUntranslated_no_skip(dir, n, i) == IF i > n THEN n + 1 ELSE i

\* the first chunk from i on without a success file (n + 1 when none):
\* 'if os.path.exists(chunk_file): continue'
RECURSIVE FirstUntranslated(_, _, _)
FirstUntranslated(dir, n, i) ==
  IF i > n THEN n + 1
  ELSE IF dir[i].ok # 0 THEN FirstUntranslated(dir, n, i + 1)
  ELSE i

\* the for loop moves on from chunk i: to the first attempt on the next
\* chunk to translate, or to the return of the service
NextChunk(dir, t, i) ==
  LET j == FirstUntranslated(dir, t.n, i)
  IN IF j > t.n
     THEN [t EXCEPT !.st = "returned", !.idx = 0, !.attempt = 0]
     ELSE [t EXCEPT !.idx = j, !.attempt = 1]

HasFile(dir, i) == dir[i].ok # 0 \/ dir[i].err # 0

\* readable: the input transcript can be opened
translate_to_japanese(readable) ==
  /\ tr.st \in {"idle", "returned", "raised"}
  /\ tr.run < MaxRuns
  /\ LET t0 == [tr EXCEPT !.st = "running", !.run = @ + 1,
                          !.had = {i \in 1..MaxChunks : HasFile(chunk_dir, i)},
                          !.called = {}, !.exhausted = {},
                          !.merged = <<>>, !.merge = ""]
     IN tr' = IF readable
              THEN NextChunk(chunk_dir, t0, 1)
              ELSE [t0 EXCEPT !.st = "raised"]
  /\ UNCHANGED <<chunk_dir, jobs_storage, disk_job, files, tasks, loop,
                 last_retry, events, regen_vars, call_vars>>

\* the translator answers with text: the success file is written
transform_succeeds ==
  /\ tr.st = "running"
  /\ LET i == tr.idx
         dir == [chunk_dir EXCEPT ![i].ok = tr.run]
     IN /\ chunk_dir' = dir
        /\ tr' = NextChunk(dir, [tr EXCEPT !.called = @ \cup {i}], i + 1)
  /\ UNCHANGED <<jobs_storage, disk_job, files, tasks, loop, last_retry,
                 events, regen_vars, call_vars>>

\* variant: giving up on a chunk ends the loop over the chunks
GiveUp_aborts(dir, t, i) ==
  [t EXCEPT !.st = "returned", !.idx = 0, !.attempt = 0]

\* after the sentinel file of chunk i is written: 'break' leaves the retry
\* loop only
GiveUp(dir, t, i) == NextChunk(dir, t, i + 1)

\* the translator call raises or answers with nothing
transform_fails ==
  /\ tr.st = "running"
  /\ LET i == tr.idx
         t == [tr EXCEPT !.called = @ \cup {i}]
     IN IF tr.attempt = max_retries
        THEN LET dir == [chunk_dir EXCEPT ![i].err = tr.run]
             IN /\ chunk_dir' = dir
                /\ tr' = GiveUp(dir, [t EXCEPT !.exhausted = @ \cup {i}], i)
        ELSE /\ tr' = [t EXCEPT !.attempt = @ + 1]
             /\ UNCHANGED chunk_dir
  /\ UNCHANGED <<jobs_storage, disk_job, files, tasks, loop, last_retry,
                 events, regen_vars, call_vars>>

\* the elements of a set of numbers in ascending order
RECURSIVE Sorted(_)
Sorted(S) ==
  IF S = {} THEN <<>>
  ELSE LET m == CHOOSE x \in S : \A y \in S : x <= y
       IN <<m>> \o Sorted(S \ {m})

\* variant: every file named chunk_*.txt is merged
MergeInputs_with_sentinels(dir) == {i \in DOMAIN dir : HasFile(dir, i)}

\* the files merge_translation_chunks reads: chunk_<n>.txt, not *_ERROR.txt
MergeInputs(dir) == {i \in DOMAIN dir : dir[i].ok # 0}

merge_translation_chunks ==
  /\ tr.st = "returned"
  /\ tr.merge = ""
  /\ tr' = IF MergeInputs(chunk_dir) = {}
           THEN [tr EXCEPT !.merge = "raised"]
           ELSE [tr EXCEPT !.merge = "ok", !.merged = Sorted(MergeInputs(chunk_dir))]
  /\ UNCHANGED <<chunk_dir, jobs_storage, disk_job, files, tasks, loop,
                 last_retry, events, regen_vars, call_vars>>

\* the service on a new chunk directory, for a transcript of n chunks
InitTranslate ==
  /\ \E n \in 1..MaxChunks : tr = [IdleRun EXCEPT !.n = n]
  /\ chunk_dir = EmptyDir
  /\ jobs_storage = NoJob
  /\ disk_job = NoJob
  /\ files = {}
  /\ tasks = <<>>
  /\ loop = 0
  /\ last_retry = 0
  /\ events = 0
  /\ NoRegens
  /\ NoCall

NextTranslate ==
  \/ \E readable \in BOOLEAN : translate_to_japanese(readable)
  \/ transform_succeeds
  \/ transform_fails
  \/ merge_translation_chunks

SpecTranslate == InitTranslate /\ [][NextTranslate]_vars

\* ------------------------------------------------------ audio regeneration
\* the event loop is held by no background task
LoopFree ==
  /\ loop = 0
  /\ \A r \in DOMAIN regens : ~(regens[r].st = "calling" /\ ~regens[r].susp)

\* request.transcript_source, request.speaking_rate in tenths, and what the
\* handler finds in the transcript file: nothing (size 0), white space, text
\* without a line 'Speaker X:', or dialogue
SourceInputs == {"target", "source", "other"}
RateInputs == {4, 5, 20, 21}
ContentInputs == {"empty", "blank", "no_speaker", "dialogue"}

TranscriptField(source) ==
  IF source = "source" THEN "formatted_transcript_path" ELSE "clean_target_path"

\* variant: only the lower limit of the speaking rate is tested
RateValid_no_upper(rate) == ~(rate < 5)

\* request.speaking_rate < 0.5 or request.speaking_rate > 2.0 is refused
RateValid(rate) == ~(rate < 5 \/ rate > 20)

\* 'next_version = 2', raised past every recorded version from index i on
RECURSIVE NextVersion(_, _, _)
NextVersion(versions, i, next_version) ==
  IF i > Len(versions) THEN next_version
  ELSE IF versions[i].version >= next_version
       THEN NextVersion(versions, i + 1, versions[i].version + 1)
       ELSE NextVersion(versions, i + 1, next_version)

NewRegen(version, field) ==
  [st |-> "pending", susp |-> FALSE, version |-> version,
   transcript |-> field, end |-> ""]

\* version_info; by: the task that made it (its created_at and voices)
VersionInfo(version, r) == [version |-> version, by |-> r]

regenerate_audio(source, rate, content) ==
  /\ LoopFree
  /\ IF Lookup = NoJob
     THEN /\ last_regen' = Answer(404, "", 0, "")
          /\ UNCHANGED <<jobs_storage, regens>>
     ELSE IF \/ Lookup.status # "COMPLETED"
             \/ source \notin {"target", "source"}
             \/ ~Present(Lookup, files, TranscriptField(source))
             \/ content # "dialogue"
             \/ ~RateValid(rate)
     THEN /\ last_regen' = Answer(400, "", 0, "")
          /\ jobs_storage' = Lookup
          /\ UNCHANGED regens
     ELSE /\ Len(regens) < MaxRegens
          /\ jobs_storage' = Lookup
          /\ regens' = Append(regens,
                         NewRegen(NextVersion(Lookup.audio_versions, 1, 2),
                                  TranscriptField(source)))
          /\ last_regen' = Answer(200, source, rate, content)
  /\ UNCHANGED <<disk_job, files, tasks, loop, last_retry, events, translate_vars, call_vars>>

RegenMessage(what, r) == Text(what, regens[r].version, "regeneration")

\* variant: the except block parks the job as the pipeline's handlers do
RegenFailed_marks_failed(r) ==
  LET job == [jobs_storage EXCEPT !.status = "FAILED",
                                  !.error_message = RegenMessage("exc", r),
                                  !.message = RegenMessage("failed", r)]
  IN /\ jobs_storage' = job
     /\ disk_job' = save_job_to_disk(job)
     /\ regens' = [regens EXCEPT ![r].st = "done", ![r].susp = FALSE, ![r].end = "failed"]

\* the except block of process_audio_regeneration
RegenFailed(r) ==
  LET job == [jobs_storage EXCEPT !.message = RegenMessage("failed", r)]
  IN /\ jobs_storage' = job
     /\ disk_job' = save_job_to_disk(job)
     /\ regens' = [regens EXCEPT ![r].st = "done", ![r].susp = FALSE, ![r].end = "failed"]

\* from the start of the task to the call of the speech service; content:
\* what the task finds in the transcript, tts_ok: TTSService() returns
process_audio_regeneration(r, content, tts_ok) ==
  /\ LoopFree
  /\ regens[r].st = "pending"
  /\ \A u \in 1..(r - 1) : regens[u].st # "pending"
  /\ IF regens[r].transcript \notin files THEN RegenFailed(r)
     ELSE IF content \in {"empty", "blank"} THEN RegenFailed(r)
     ELSE IF ~tts_ok THEN RegenFailed(r)
     ELSE LET job == [jobs_storage EXCEPT !.message = RegenMessage("regenerating", r)]
          IN /\ jobs_storage' = job
             /\ disk_job' = save_job_to_disk(job)
             /\ regens' = [regens EXCEPT ![r].st = "calling"]
  /\ UNCHANGED <<files, tasks, loop, last_retry, events, last_regen, translate_vars, call_vars>>

\* generate_audio_with_custom_voices reaches asyncio.sleep between segments
regen_sleeps(r) ==
  /\ regens[r].st = "calling"
  /\ ~regens[r].susp
  /\ regens' = [regens EXCEPT ![r].susp = TRUE]
  /\ UNCHANGED <<jobs_storage, disk_job, files, tasks, loop, last_retry,
                 events, last_regen, translate_vars, call_vars>>

\* variant: the new record takes the place of the list
AddVersion_replaces(job, version, r) ==
  [job EXCEPT !.audio_versions = <<VersionInfo(version, r)>>]

\* job.audio_versions.append(version_info)
AddVersion(job, version, r) ==
  [job EXCEPT !.audio_versions = Append(@, VersionInfo(version, r))]

\* the speech service returns; big_enough: the file it names exists and has
\* 1000 bytes or more
regen_returns(r, big_enough) ==
  /\ regens[r].st = "calling"
  /\ LoopFree \/ ~regens[r].susp
  /\ IF ~big_enough THEN RegenFailed(r)
     ELSE LET job == [AddVersion(jobs_storage, regens[r].version, r)
                        EXCEPT !.message = RegenMessage("regenerated", r)]
          IN /\ jobs_storage' = job
             /\ disk_job' = save_job_to_disk(job)
             /\ regens' = [regens EXCEPT ![r].st = "done", ![r].susp = FALSE,
                                         ![r].end = "ok"]
  /\ UNCHANGED <<files, tasks, loop, last_retry, events, last_regen, translate_vars, call_vars>>

\* the speech service raises
regen_raises(r) ==
  /\ regens[r].st = "calling"
  /\ LoopFree \/ ~regens[r].susp
  /\ RegenFailed(r)
  /\ UNCHANGED <<files, tasks, loop, last_retry, events, last_regen, translate_vars, call_vars>>

NextRegen ==
  \/ \E source \in SourceInputs, rate \in RateInputs, content \in ContentInputs :
       regenerate_audio(source, rate, content)
  \/ \E r \in DOMAIN regens, content \in ContentInputs, tts_ok \in BOOLEAN :
       process_audio_regeneration(r, content, tts_ok)
  \/ \E r \in DOMAIN regens : regen_sleeps(r)
  \/ \E r \in DOMAIN regens, big_enough \in BOOLEAN : regen_returns(r, big_enough)
  \/ \E r \in DOMAIN regens : regen_raises(r)
  \/ Restart
  \/ \E source \in {"target", "source"} : DeleteArtifact(TranscriptField(source))

SpecRegen == Init /\ [][NextRegen]_vars

\* ------------------------------------------------ retrying without an end
\* the loop drops the background tasks that have finished
forget_finished_tasks ==
  /\ tasks # <<>>
  /\ \A t \in DOMAIN tasks : tasks[t].st = "done"
  /\ tasks' = <<>>
  /\ UNCHANGED <<jobs_storage, disk_job, files, loop, last_retry, events,
                 regen_vars, call_vars, translate_vars>>

\* the client retries whenever it can, every constructor and every service
\* call succeeds, nothing restarts and no file is removed
NextRetry ==
  \/ retry_job
  \/ \E t \in DOMAIN tasks : process_translation_job(t, TRUE)
  \/ \E t \in DOMAIN tasks : service_sleeps(t)
  \/ \E t \in DOMAIN tasks : service_returns(t)
  \/ forget_finished_tasks

\* every request is served, every scheduled task starts and every awaited
\* service call returns
SpecRetry ==
  /\ Init
  /\ [][NextRetry]_vars
  /\ WF_vars(retry_job)
  /\ WF_vars(\E t \in 1..MaxTasks : t \in DOMAIN tasks /\ process_translation_job(t, TRUE))
  /\ WF_vars(\E t \in 1..MaxTasks : t \in DOMAIN tasks /\ service_returns(t))
  /\ WF_vars(forget_finished_tasks)

\* ------------------------------------------------ speech service, by segment
\* the other variables of a service function called on its own
NoJobState ==
  /\ jobs_storage = NoJob
  /\ disk_job = NoJob
  /\ files = {}
  /\ tasks = <<>>
  /\ loop = 0
  /\ last_retry = 0
  /\ events = 0
  /\ NoRegens
  /\ NoTranslation

\* the sequences over S of length 0..n
SeqsUpTo(S, n) == UNION {[1..k -> S] : k \in 0..n}

\* a run of the speech service: the function called, for each dialogue
\* segment of the transcript whether the speech engine answers ("ok") or
\* fails for good ("fail"), and the segments whose file is on disk already
TtsInputs ==
  {[done |-> TRUE, f |-> f, segments |-> segments, existing |-> existing] :
     f \in {"generate_audio", "generate_audio_with_custom_voices"},
     segments \in SeqsUpTo({"ok", "fail"}, MaxSegments),
     existing \in SUBSET (1..MaxSegments)}

\* what a run leaves: raised or not, and the segment files merged into the
\* final file (<<>>: no final file)
TtsResult(raised, final) == [done |-> TRUE, raised |-> raised, final |-> final]

\* audio_files of generate_audio from segment i on: a file found on disk is
\* kept, a failed segment gets a silence placeholder
RECURSIVE audio_files(_, _, _)
audio_files(segments, existing, i) ==
  IF i > Len(segments) THEN <<>>
  ELSE <<IF i \in existing THEN "kept"
         ELSE IF segments[i] = "ok" THEN "audio" ELSE "silence">>
       \o audio_files(segments, existing, i + 1)

generate_audio(segments, existing) ==
  LET merged == audio_files(segments, existing, 1)
  IN IF merged # <<>> THEN TtsResult(FALSE, merged) ELSE TtsResult(TRUE, <<>>)

failed_segments(segments) == {i \in DOMAIN segments : segments[i] = "fail"}

generate_audio_with_custom_voices(segments) ==
  LET merged == audio_files(segments, {}, 1)
      successful_count == Len(segments) - Cardinality(failed_segments(segments))
  IN IF segments = <<>> THEN TtsResult(TRUE, <<>>)
     ELSE IF successful_count = 0 /\ Len(segments) > 0 THEN TtsResult(TRUE, <<>>)
     ELSE IF merged # <<>> THEN TtsResult(FALSE, merged)
     ELSE TtsResult(TRUE, <<>>)

synthesize ==
  /\ ~output.done
  /\ output' = IF input.f = "generate_audio"
               THEN generate_audio(input.segments, input.existing)
               ELSE generate_audio_with_custom_voices(input.segments)
  /\ UNCHANGED <<jobs_storage, disk_job, files, tasks, loop, last_retry, events,
                 regen_vars, translate_vars, input>>

InitTts ==
  /\ input \in {i \in TtsInputs : i.existing \subseteq DOMAIN i.segments}
  /\ output = NotCalled
  /\ NoJobState

NextTts == synthesize

SpecTts == InitTts /\ [][NextTts]_vars

\* -------------------------------------------------------------- text cleaning
\* A text is the sequence of its lines (content.split('\n')), a line the
\* sequence of its tokens, written with one space between them: a speaker
\* label, a run of plain text, a run the artifact patterns match, or the
\* marker the merge writes before a chunk.  <<>> is an empty line.
SpeakerLabels == {"Speaker A:", "Speaker B:"}
Marker == "=== TRANSLATION CHUNK chunk_001.txt ==="
Artifact == "**bold**"

\* re.match(r'^Speaker [A-E]:', line)
IsSpeakerLine(line) == line # <<>> /\ line[1] \in SpeakerLabels

\* the lines of s from the first that is not empty
RECURSIVE DropBlanks(_)
DropBlanks(s) ==
  IF s = <<>> THEN <<>>
  ELSE IF s[1] = <<>> THEN DropBlanks(Tail(s)) ELSE s

RECURSIVE Reverse(_)
Reverse(s) == IF s = <<>> THEN <<>> ELSE Reverse(Tail(s)) \o <<s[1]>>

\* the lines of s up to the last that is not empty
DropTrailingBlanks(s) == Reverse(DropBlanks(Reverse(s)))

\* re.sub(r'=== TRANSLATION CHUNK .*? ===\s*\n?', '', content): the marker
\* goes with the line break and the empty lines after it
RECURSIVE remove_chunk_markers(_)
remove_chunk_markers(lines) ==
  IF lines = <<>> THEN <<>>
  ELSE IF lines[1] = <<Marker>>
  THEN LET rest == DropBlanks(Tail(lines))
       IN IF rest = <<>> THEN <<<<>>>> ELSE remove_chunk_markers(rest)
  ELSE <<lines[1]>> \o remove_chunk_markers(Tail(lines))

\* a speaker line with nothing after the label is dropped
RECURSIVE clean_speaker_formatting(_)
clean_speaker_formatting(lines) ==
  IF lines = <<>> THEN <<>>
  ELSE (IF IsSpeakerLine(lines[1]) /\ Len(lines[1]) = 1 THEN <<>> ELSE <<lines[1]>>)
         \o clean_speaker_formatting(Tail(lines))

\* the artifact patterns are removed inside every line
remove_artifacts(lines) ==
  [i \in DOMAIN lines |-> SelectSeq(lines[i], LAMBDA tok : tok # Artifact)]

\* a run of empty lines becomes one
RECURSIVE CollapseBlanks(_, _)
CollapseBlanks(lines, prev_was_empty) ==
  IF lines = <<>> THEN <<>>
  ELSE IF lines[1] = <<>>
  THEN (IF prev_was_empty THEN <<>> ELSE <<<<>>>>) \o CollapseBlanks(Tail(lines), TRUE)
  ELSE <<lines[1]>> \o CollapseBlanks(Tail(lines), FALSE)

\* _add_speaker_spacing: two empty lines before a line of another speaker
RECURSIVE add_speaker_spacing(_, _, _)
add_speaker_spacing(lines, spaced_lines, current_speaker) ==
  IF lines = <<>> THEN spaced_lines
  ELSE LET line == lines[1]
       IN IF IsSpeakerLine(line)
          THEN add_speaker_spacing(Tail(lines),
                 (IF current_speaker # "" /\ current_speaker # line[1]
                  THEN DropTrailingBlanks(spaced_lines) \o <<<<>>, <<>>>>
                  ELSE spaced_lines) \o <<line>>,
                 line[1])
          ELSE add_speaker_spacing(Tail(lines), spaced_lines \o <<line>>, current_speaker)

normalize_spacing(lines) == add_speaker_spacing(CollapseBlanks(lines, FALSE), <<>>, "")

\* content.strip() + '\n'
final_japanese_cleanup(lines) ==
  LET stripped == DropTrailingBlanks(DropBlanks(lines))
  IN IF stripped = <<>> THEN <<<<>>, <<>>>> ELSE stripped \o <<<<>>>>

\* the five passes of clean_japanese_text
clean_japanese_text(lines) ==
  final_japanese_cleanup(
    normalize_spacing(
      remove_artifacts(
        clean_speaker_formatting(
          remove_chunk_markers(lines)))))

\* the lines the texts to clean are made of
CleanLines ==
  {<<>>, <<Marker>>, <<"text">>, <<Artifact>>, <<"Speaker A:">>,
   <<"Speaker A:", "text">>, <<"Speaker B:", "text">>,
   <<"Speaker A:", Artifact>>, <<"Speaker A:", Artifact, "text">>}

CleanInputs ==
  {[done |-> TRUE, lines |-> lines] : lines \in SeqsUpTo(CleanLines, MaxLines) \ {<<>>}}

clean_twice ==
  /\ ~output.done
  /\ output' = [done |-> TRUE,
                once |-> clean_japanese_text(input.lines),
                twice |-> clean_japanese_text(clean_japanese_text(input.lines))]
  /\ UNCHANGED <<jobs_storage, disk_job, files, tasks, loop, last_retry, events,
                 regen_vars, translate_vars, input>>

InitClean ==
  /\ input \in CleanInputs
  /\ output = NotCalled
  /\ NoJobState

NextClean == clean_twice

SpecClean == InitClean /\ [][NextClean]_vars

\* ------------------------------------------------------------ chunk splitter
\* A string of a transcript is the sequence of its tokens: a speaker label,
\* a sentence (it ends in '.', '?' or '!' and holds no white space that
\* follows one) or one blank " ".
Sentences == {"Yes.", "I am glad to be here."}

\* len() of a token
TokenLen(tok) ==
  IF tok \in SpeakerLabels THEN 10
  ELSE IF tok = " " THEN 1
  ELSE IF tok = "Yes." THEN 4
  ELSE 21

RECURSIVE StrLen(_)
StrLen(s) == IF s = <<>> THEN 0 ELSE TokenLen(s[1]) + StrLen(Tail(s))

\* s.lstrip(), s.rstrip(), s.strip()
RECURSIVE LStrip(_)
LStrip(s) == IF s # <<>> /\ s[1] = " " THEN LStrip(Tail(s)) ELSE s

RStrip(s) == Reverse(LStrip(Reverse(s)))

Strip(s) == RStrip(LStrip(s))

\* ' '.join(parts)
RECURSIVE JoinBlank(_)
JoinBlank(parts) ==
  IF parts = <<>> THEN <<>>
  ELSE IF Len(parts) = 1 THEN parts[1]
  ELSE parts[1] \o <<" ">> \o JoinBlank(Tail(parts))

\* re.split(r'(?<=[.?!])\s+', content): the pieces of s between the blanks
\* that follow a sentence; piece: the piece being read
RECURSIVE split_sentences(_, _)
split_sentences(s, piece) ==
  IF s = <<>> THEN <<piece>>
  ELSE IF s[1] = " " /\ piece # <<>> /\ piece[Len(piece)] \in Sentences
  THEN <<piece>> \o split_sentences(LStrip(s), <<>>)
  ELSE split_sentences(Tail(s), Append(piece, s[1]))

\* the loop of _split_long_block over the sentences
RECURSIVE split_loop(_, _, _, _)
split_loop(sentences, speaker_label, current_chunk, max_chars) ==
  IF sentences = <<>> THEN <<Strip(current_chunk)>>
  ELSE IF StrLen(current_chunk) + StrLen(sentences[1]) > max_chars
  THEN <<Strip(current_chunk)>>
         \o split_loop(Tail(sentences), speaker_label,
                       <<speaker_label, " ">> \o sentences[1], max_chars)
  ELSE split_loop(Tail(sentences), speaker_label,
                  current_chunk \o sentences[1], max_chars)

\* _split_long_block([block], max_chars)
split_long_block(block, max_chars) ==
  LET speaker_label == IF IsSpeakerLine(block) THEN block[1] ELSE "Speaker A:"
  IN split_loop(split_sentences(block, <<>>), speaker_label,
                <<speaker_label, " ">>, max_chars)

\* f"{current_speaker}: {' '.join(current_block_lines)}"
merged_text(current_speaker, current_block_lines) ==
  <<current_speaker, " ">> \o JoinBlank(current_block_lines)

\* the first loop of _split_text_by_speakers: consecutive lines of one
\* speaker become one block
RECURSIVE merged_blocks(_, _, _)
merged_blocks(lines, current_speaker, current_block_lines) ==
  LET saved == IF current_block_lines # <<>> /\ current_speaker # ""
               THEN <<merged_text(current_speaker, current_block_lines)>>
               ELSE <<>>
  IN IF lines = <<>> THEN saved
     ELSE LET line == Strip(lines[1])
          IN IF line = <<>>
             THEN merged_blocks(Tail(lines), current_speaker, current_block_lines)
             ELSE IF IsSpeakerLine(line)
             THEN LET line_content == Strip(Tail(line))
                      content == IF line_content # <<>> THEN <<line_content>> ELSE <<>>
                  IN IF current_speaker = line[1]
                     THEN merged_blocks(Tail(lines), current_speaker,
                                        current_block_lines \o content)
                     ELSE saved \o merged_blocks(Tail(lines), line[1], content)
             ELSE merged_blocks(Tail(lines), current_speaker,
                                IF current_speaker # ""
                                THEN Append(current_block_lines, line)
                                ELSE current_block_lines)

\* the second loop: a block longer than chunk_width is split
RECURSIVE chunk_blocks(_, _)
chunk_blocks(blocks, chunk_width) ==
  IF blocks = <<>> THEN <<>>
  ELSE (IF StrLen(blocks[1]) > chunk_width
        THEN split_long_block(blocks[1], chunk_width)
        ELSE <<blocks[1]>>)
         \o chunk_blocks(Tail(blocks), chunk_width)

\* lines: text.splitlines(), not empty
split_text_by_speakers(lines, chunk_width) ==
  LET first == IF IsSpeakerLine(Strip(lines[1])) THEN lines[1]
               ELSE <<"Speaker A:", " ">> \o lines[1]
  IN chunk_blocks(merged_blocks(<<first>> \o Tail(lines), "", <<>>), chunk_width)

\* a line of a transcript: a label or none, then sentences
TranscriptLines ==
  {(IF speaker = "" THEN <<>> ELSE <<speaker, " ">>) \o JoinBlank(sentences) :
     speaker \in SpeakerLabels \cup {""},
     sentences \in {[i \in DOMAIN ss |-> <<ss[i]>>] :
                      ss \in SeqsUpTo(Sentences, MaxSentences) \ {<<>>}}}

\* TRANSLATION_CHUNK_WIDTH, here 20 or 30 characters
SplitInputs ==
  {[done |-> TRUE, lines |-> lines, chunk_width |-> w] :
     lines \in SeqsUpTo(TranscriptLines, MaxTurns) \ {<<>>}, w \in {20, 30}}

\* ------------------------------------------------------------- chunk merging
\* f"{idx:03}": the decimal digits of idx, padded with zeros to three
RECURSIVE Digits(_)
Digits(n) == IF n < 10 THEN <<n>> ELSE Digits(n \div 10) \o <<n % 10>>

RECURSIVE Pad3(_)
Pad3(ds) == IF Len(ds) < 3 THEN Pad3(<<0>> \o ds) ELSE ds

chunk_name(idx) == Pad3(Digits(idx))

\* int(match.group(1))
RECURSIVE chunk_num(_)
chunk_num(ds) ==
  IF ds = <<>> THEN 0 ELSE chunk_num(SubSeq(ds, 1, Len(ds) - 1)) * 10 + ds[Len(ds)]

\* what a chunk file holds: nothing, the marker of an earlier merge only, a
\* speaker line, or (sentinel file) the report of the failure
BlankContent == <<<<>>>>
MarkerContent == <<<<Marker>>>>
TextContent == <<<<"Speaker A:", " ", "Yes.">>>>
SentinelContent == <<<<"Translation failed after 4 attempts">>>>

\* a file of the chunk directory: chunk_<digits>.txt, or
\* chunk_<digits>_ERROR.txt when error
ChunkFile(digits, error, readable, lines) ==
  [digits |-> digits, error |-> error, readable |-> readable, lines |-> lines]

\* variant: the sentinel files are listed too
chunk_files_with_sentinels(listing) == listing

\* the files the listing loop keeps
chunk_files(listing) == {file \in listing : ~file.error}

\* variant: the files are sorted by name; the key is the name (three or
\* four digits) read as a fraction
sort_key_by_name(file) ==
  LET ds == file.digits
  IN ds[1] * 1000 + ds[2] * 100 + ds[3] * 10 + (IF Len(ds) > 3 THEN ds[4] ELSE 0)

\* key=lambda x: x[0], the chunk number
sort_key(file) == chunk_num(file.digits)

\* chunk_files.sort(key=lambda x: x[0])
RECURSIVE sort_chunk_files(_)
sort_chunk_files(S) ==
  IF S = {} THEN <<>>
  ELSE LET first == CHOOSE x \in S : \A y \in S : sort_key(x) <= sort_key(y)
       IN <<first>> \o sort_chunk_files(S \ {first})

IsBlankLine(line) == Strip(line) = <<>>

RECURSIVE DropBlankLines(_)
DropBlankLines(lines) ==
  IF lines # <<>> /\ IsBlankLine(lines[1]) THEN DropBlankLines(Tail(lines)) ELSE lines

\* content.strip() and content.rstrip() of a text; '' is one empty line
RStripText(lines) ==
  LET kept == Reverse(DropBlankLines(Reverse(lines)))
  IN IF kept = <<>> THEN <<<<>>>>
     ELSE [kept EXCEPT ![Len(kept)] = RStrip(@)]

StripText(lines) ==
  LET kept == DropBlankLines(RStripText(lines))
  IN IF kept = <<>> THEN <<<<>>>> ELSE [kept EXCEPT ![1] = LStrip(@)]

\* variant: the content of a chunk is merged with the markers found in it
remove_markers_kept(lines) == lines

\* re.sub(r'=== TRANSLATION CHUNK .*? ===\n?', '', content)
RECURSIVE remove_markers(_)
remove_markers(lines) ==
  IF lines = <<>> THEN <<>>
  ELSE IF lines[1] = <<Marker>>
  THEN (IF Len(lines) = 1 THEN <<<<>>>> ELSE remove_markers(Tail(lines)))
  ELSE <<lines[1]>> \o remove_markers(Tail(lines))

\* re.sub(r'\n\s*\n\s*\n+', '\n\n', content) between two lines with text:
\* two or more empty lines become one (the empty lines at the ends of the
\* text are taken by the strip before or after it)
RECURSIVE collapse_blank_lines(_, _)
collapse_blank_lines(lines, prev_was_blank) ==
  IF lines = <<>> THEN <<>>
  ELSE IF IsBlankLine(lines[1])
  THEN (IF prev_was_blank THEN <<>> ELSE <<<<>>>>)
         \o collapse_blank_lines(Tail(lines), TRUE)
  ELSE <<lines[1]>> \o collapse_blank_lines(Tail(lines), FALSE)

clean_chunk_content(lines) ==
  collapse_blank_lines(StripText(remove_markers(lines)), FALSE)

\* merged_content from file i of the sorted files on: the marker, the
\* cleaned content and an empty line for each file that can be read and is
\* not blank
RECURSIVE merged_content(_, _)
merged_content(sorted, i) ==
  IF i > Len(sorted) THEN <<>>
  ELSE (IF sorted[i].readable /\ StripText(sorted[i].lines) # <<<<>>>>
        THEN <<<<Marker>>>> \o clean_chunk_content(StripText(sorted[i].lines)) \o <<<<>>>>
        ELSE <<>>)
         \o merged_content(sorted, i + 1)

\* the chunk numbers written into the markers of merged_content
RECURSIVE merged_nums(_, _)
merged_nums(sorted, i) ==
  IF i > Len(sorted) THEN <<>>
  ELSE (IF sorted[i].readable /\ StripText(sorted[i].lines) # <<<<>>>>
        THEN <<chunk_num(sorted[i].digits)>> ELSE <<>>)
         \o merged_nums(sorted, i + 1)

\* _final_cleanup: one blank after a speaker label, runs of empty lines
\* collapsed, one line break at the end
final_cleanup(lines) ==
  LET cleaned_lines ==
        [i \in DOMAIN lines |->
           IF lines[i] # <<Marker>> /\ IsSpeakerLine(lines[i])
           THEN <<lines[i][1], " ">> \o LStrip(Tail(lines[i]))
           ELSE IF IsBlankLine(lines[i]) THEN <<>> ELSE lines[i]]
  IN RStripText(collapse_blank_lines(cleaned_lines, FALSE)) \o <<<<>>>>

MergeResult(raised, nums, lines) ==
  [done |-> TRUE, raised |-> raised, nums |-> nums, lines |-> lines]

\* merge_translation_chunks on a directory: exists, and the files listed
merge_chunks(exists, listing) ==
  LET sorted == sort_chunk_files(chunk_files(listing))
      content == merged_content(sorted, 1)
  IN IF ~exists \/ sorted = <<>> \/ content = <<>>
     THEN MergeResult(TRUE, <<>>, <<>>)
     ELSE MergeResult(FALSE, merged_nums(sorted, 1), final_cleanup(content))

\* the chunk numbers of the directories to merge: chunk_002.txt,
\* chunk_999.txt and chunk_1000.txt
ChunkNumbers == {2, 999, 1000}

\* for a chunk number, its success file and whether it has a sentinel file
FileOptions ==
  {[ok |-> ok, err |-> err] :
     ok \in {"absent", "unreadable", "blank", "marker", "text"}, err \in BOOLEAN}

SuccessFile(idx, ok) ==
  IF ok = "absent" THEN {}
  ELSE {ChunkFile(chunk_name(idx), FALSE, ok # "unreadable",
                  IF ok = "blank" THEN BlankContent
                  ELSE IF ok = "marker" THEN MarkerContent
                  ELSE TextContent)}

SentinelFile(idx, err) ==
  IF err THEN {ChunkFile(chunk_name(idx), TRUE, TRUE, SentinelContent)} ELSE {}

\* os.listdir(chunks_dir)
Listing(options) ==
  UNION {SuccessFile(idx, options[idx].ok) \cup SentinelFile(idx, options[idx].err) :
           idx \in ChunkNumbers}

MergeDirectories ==
  {[done |-> TRUE, exists |-> exists, options |-> options] :
     exists \in BOOLEAN, options \in [ChunkNumbers -> FileOptions]}

merge_directory ==
  /\ ~output.done
  /\ output' = merge_chunks(input.exists, Listing(input.options))
  /\ UNCHANGED <<jobs_storage, disk_job, files, tasks, loop, last_retry, events,
                 regen_vars, translate_vars, input>>

InitMerge ==
  /\ input \in MergeDirectories
  /\ output = NotCalled
  /\ NoJobState

NextMerge == merge_directory

SpecMerge == InitMerge /\ [][NextMerge]_vars

\* the chunks of the splitter written, as they are, to chunk_001.txt,
\* chunk_002.txt, ...
WrittenChunks(chunks) ==
  {ChunkFile(chunk_name(i), FALSE, TRUE, <<chunks[i]>>) : i \in DOMAIN chunks}

\* the transcript is split, the chunks are written and merged
split_and_merge ==
  /\ ~output.done
  /\ LET chunks == split_text_by_speakers(input.lines, input.chunk_width)
     IN output' = [done |-> TRUE, chunks |-> chunks,
                   merged |-> merge_chunks(TRUE, WrittenChunks(chunks))]
  /\ UNCHANGED <<jobs_storage, disk_job, files, tasks, loop, last_retry, events,
                 regen_vars, translate_vars, input>>

InitSplit ==
  /\ input \in SplitInputs
  /\ output = NotCalled
  /\ NoJobState

NextSplit == split_and_merge

SpecSplit == InitSplit /\ [][NextSplit]_vars

\* ------------------------------------------------------ runs to their end
\* uploads, retries and the runs they schedule; a constructor or a service
\* call may fail, the process keeps running and no file is removed; the
\* loop drops the tasks that have finished
NextRun ==
  \/ forget_finished_tasks
  \/ \E src \in LanguageInputs, tgt \in LanguageInputs, typeOk \in BOOLEAN :
       upload_audio_file(src, tgt, typeOk)
  \/ retry_job
  \/ \E t \in DOMAIN tasks, services_ok \in BOOLEAN : process_translation_job(t, services_ok)
  \/ \E t \in DOMAIN tasks : service_sleeps(t)
  \/ \E t \in DOMAIN tasks : service_returns(t)
  \/ \E t \in DOMAIN tasks : service_raises(t)

\* every scheduled task starts, and every awaited service call returns or
\* raises
SpecRun ==
  /\ Init
  /\ [][NextRun]_vars
  /\ WF_vars(\E t \in 1..MaxTasks, services_ok \in BOOLEAN :
               t \in DOMAIN tasks /\ process_translation_job(t, services_ok))
  /\ WF_vars(\E t \in 1..MaxTasks :
               t \in DOMAIN tasks /\ (service_returns(t) \/ service_raises(t)))

\* ------------------------------------------------- speech service, run again
\* the segment files of audio_segments: for each segment no file ("none"),
\* the speech of the engine ("audio") or a silence placeholder ("silence");
\* _create_silence_placeholder exports to the path of the segment itself
NoSegmentFiles(n) == [i \in 1..n |-> "none"]

\* the segments generate_audio sends to the engine: those without a file
submitted_segments(segment_files) ==
  {i \in DOMAIN segment_files : segment_files[i] = "none"}

\* the segment files after the loop of generate_audio; answers: whether the
\* engine answers ("ok") or fails for good ("fail") on each segment
segment_files_after(segment_files, answers) ==
  [i \in DOMAIN segment_files |->
     IF i \notin submitted_segments(segment_files) THEN segment_files[i]
     ELSE IF answers[i] = "ok" THEN "audio" ELSE "silence"]

\* the step runs twice on one transcript (the job is retried at audio
\* generation): the answers of the engine in the first and the second run
RerunInputs ==
  UNION {{[done |-> TRUE, first |-> first, second |-> second] :
            first \in [1..n -> {"ok", "fail"}],
            second \in [1..n -> {"ok", "fail"}]} : n \in 1..MaxSegments}

\* generate_audio on an empty audio_segments directory
first_run ==
  /\ ~output.done
  /\ output' = [done |-> TRUE, run |-> 1,
                submitted |-> submitted_segments(NoSegmentFiles(Len(input.first))),
                segment_files |-> segment_files_after(NoSegmentFiles(Len(input.first)),
                                                      input.first)]
  /\ UNCHANGED <<jobs_storage, disk_job, files, tasks, loop, last_retry, events,
                 regen_vars, translate_vars, input>>

\* generate_audio again, on the directory the first run left
second_run ==
  /\ output.done
  /\ output.run = 1
  /\ output' = [done |-> TRUE, run |-> 2,
                submitted |-> submitted_segments(output.segment_files),
                segment_files |-> segment_files_after(output.segment_files,
                                                      input.second)]
  /\ UNCHANGED <<jobs_storage, disk_job, files, tasks, loop, last_retry, events,
                 regen_vars, translate_vars, input>>

InitRerun ==
  /\ input \in RerunInputs
  /\ output = NotCalled
  /\ NoJobState

NextRerun == first_run \/ second_run

SpecRerun == InitRerun /\ [][NextRerun]_vars

\* =================================================================== claims
\* position of an in-progress status in the pipeline; UPLOADED starts at the
\* first step, COMPLETED after the last
StepIndex(s) ==
  IF s = "UPLOADED" THEN 1
  ELSE IF s \in {StepStatus[k] : k \in Steps}
  THEN CHOOSE k \in Steps : StepStatus[k] = s
  ELSE 8

PresentSet(job, fs) == {f \in PathFields : f \in job.paths /\ f \in fs}

Resolved(t) == tasks[t].is_retry /\ tasks[t].resume_from # ""

\* a step of the behaviour in which task t runs from its start
Starts(t) == tasks[t].st = "pending" /\ tasks'[t].st \in {"calling", "done"}

\* C1: for each of the seven FAILED_<STEP> statuses the resolver returns the
\* matching in-progress status <STEP>, whatever artifact paths are recorded
\* and whatever files exist
C1_ResumeAtFailedStep ==
  \A t \in DOMAIN tasks : \A k \in Steps :
    (Resolved(t) /\ tasks[t].seen = FailedStepStatus[k])
      => tasks[t].resume_from = StepStatus[k]

\* a job failed at the first step although every artifact, the final audio
\* included, is recorded and on disk; the retry resumed at the first step
C1_Witness ==
  /\ Len(tasks) = 1
  /\ Resolved(1)
  /\ tasks[1].seen = "FAILED_PREPROCESSING_AUDIO"
  /\ tasks[1].resume_from = "PREPROCESSING_AUDIO"
  /\ jobs_storage.paths = PathFields
  /\ PathFields \subseteq files

\* C2: for a job in generic FAILED whose present artifacts (path recorded and
\* file existing) are exactly those of steps 1..k, k in 0..6, the resolver
\* returns the status that begins step k+1 (UPLOADED, the first step, for
\* k = 0)
C2_ProbeResumesAfterLastArtifact ==
  [][\A t \in DOMAIN tasks : \A k \in 0..6 :
       (/\ Starts(t)
        /\ tasks[t].is_retry
        /\ jobs_storage.status = "FAILED"
        /\ PresentSet(jobs_storage, files) = PathsUpTo(k))
         => /\ tasks'[t].resume_from = IF k = 0 THEN "UPLOADED" ELSE StepStatus[k + 1]
            /\ StepIndex(tasks'[t].resume_from) = k + 1]_vars

\* generic FAILED with the artifacts of steps 1..5: resumed at cleaning
C2_Witness ==
  /\ Len(tasks) = 1
  /\ Resolved(1)
  /\ tasks[1].seen = "FAILED"
  /\ PresentSet(jobs_storage, files) = PathsUpTo(5)
  /\ tasks[1].resume_from = "CLEANING_TARGET_TEXT"


FailedStatuses == {"FAILED"} \cup {FailedStepStatus[k] : k \in Steps}

\* the steps k, k+1, ..., k+n-1 in pipeline order
StepsFrom(k, n) == [i \in 1..n |-> k + i - 1]

\* the task ended because a service, an input artifact or a constructor failed
ExternalFailure(t) == tasks[t].end \in {"engine", "input", "ctor"}

\* C3 (as stated): a retry of a job in generic FAILED whose final audio is
\* recorded and exists resolves to COMPLETED, runs no step, invokes no
\* service, and leaves the job COMPLETED
C3_RetryOfFinishedJobCompletes ==
  [][\A t \in DOMAIN tasks :
       (/\ Starts(t)
        /\ tasks[t].is_retry
        /\ jobs_storage.status = "FAILED"
        /\ Present(jobs_storage, files, "final_target_audio_path"))
         => /\ tasks'[t].resume_from = "COMPLETED"
            /\ tasks'[t].ran = <<>>
            /\ tasks'[t].invoked = {}
            /\ tasks'[t].st = "done"
            /\ jobs_storage'.status = "COMPLETED"]_vars

\* C3 (amended): such a retry resolves to COMPLETED, runs no step and invokes
\* no service; the job ends COMPLETED unless constructing the services
\* raises, and then it ends in generic FAILED again
C3_RetryOfFinishedJobRunsNoStep ==
  [][\A t \in DOMAIN tasks :
       (/\ Starts(t)
        /\ tasks[t].is_retry
        /\ jobs_storage.status = "FAILED"
        /\ Present(jobs_storage, files, "final_target_audio_path"))
         => /\ tasks'[t].resume_from = "COMPLETED"
            /\ tasks'[t].ran = <<>>
            /\ tasks'[t].invoked = {}
            /\ tasks'[t].st = "done"
            /\ \/ jobs_storage'.status = "COMPLETED" /\ tasks'[t].end = "completed"
               \/ jobs_storage'.status = "FAILED" /\ tasks'[t].end = "ctor"]_vars

\* the latest task is such a retry and has marked the job completed
C3_Witness ==
  /\ Len(tasks) > 0
  /\ LET tk == tasks[Len(tasks)] IN
       /\ tk.is_retry
       /\ tk.seen = "FAILED"
       /\ tk.resume_from = "COMPLETED"
       /\ tk.end = "completed"
       /\ tk.ran = <<>>
  /\ jobs_storage.status = "COMPLETED"
  /\ Present(jobs_storage, files, "final_target_audio_path")

\* C4 (as stated): a retry resolved to step k executes k, k+1, ..., 7 in
\* order, each once, and ends in COMPLETED unless a service, an input or a
\* constructor failed on the way
C4_RetryRunsThroughToCompleted ==
  \A t \in DOMAIN tasks :
    Resolved(t) =>
      LET k == StepIndex(tasks[t].resume_from) IN
        /\ tasks[t].ran = StepsFrom(k, Len(tasks[t].ran))
        /\ (tasks[t].st = "done" /\ ~ExternalFailure(t))
             => (tasks[t].end = "completed" /\ Len(tasks[t].ran) = 8 - k)

\* C5: a retry resolved to step k never enters a step or invokes a service
\* of a step j < k, and no step of the task changes a path field produced
\* by a step j < k
C5_RetrySkipsEarlierSteps ==
  [][\A t \in DOMAIN tasks :
       (tasks[t].is_retry /\ tasks'[t] # tasks[t] /\ tasks'[t].st # "lost")
         => LET k == StepIndex(tasks'[t].resume_from) IN
              /\ \A j \in tasks'[t].invoked : j >= k
              /\ \A i \in 1..Len(tasks'[t].ran) : tasks'[t].ran[i] >= k
              /\ \A j \in Steps :
                   j < k => jobs_storage'.paths \cap Produced(j)
                              = jobs_storage.paths \cap Produced(j)]_vars

\* a retry resumed at merging: the merge service ran, no earlier one did
C5_Witness ==
  \E t \in DOMAIN tasks :
    /\ Resolved(t)
    /\ tasks[t].resume_from = "MERGING_TARGET_CHUNKS"
    /\ tasks[t].st = "done"
    /\ tasks[t].invoked = {5}
    /\ PathsUpTo(5) \subseteq jobs_storage.paths

FullChain == [i \in 1..8 |-> IF i <= 7 THEN StepStatus[i] ELSE "COMPLETED"]

\* C6 (as stated): a fresh job none of whose services, inputs or
\* constructors fails goes from UPLOADED through the seven step statuses in
\* order to COMPLETED, and ends with progress 100 and the final audio path
C6_FreshRunReachesCompleted ==
  \A t \in DOMAIN tasks :
    (~tasks[t].is_retry /\ tasks[t].st = "done" /\ ~ExternalFailure(t))
      => /\ tasks[t].seen = "UPLOADED"
         /\ tasks[t].trace = FullChain
         /\ tasks[t].end = "completed"
         /\ (Len(tasks) = t /\ events = 0)
              => /\ jobs_storage.progress = 100
                 /\ "final_target_audio_path" \in jobs_storage.paths

\* the step of the behaviour in which the handler of a step of task t runs
StepFails(t) ==
  /\ tasks[t].st \in {"pending", "calling"}
  /\ tasks'[t].st = "done"
  /\ tasks'[t].end \in {"bind", "input", "engine"}

\* C7: when step k raises, the status becomes FAILED_<STEP k>, error_message
\* is the exception text, the record is saved, the task runs nothing more,
\* step k records no path and no recorded path is dropped
C7_StepFailureParksJob ==
  [][\A t \in DOMAIN tasks :
       /\ StepFails(t) =>
            LET k == tasks'[t].ran[Len(tasks'[t].ran)] IN
              /\ jobs_storage'.status = FailedStepStatus[k]
              /\ jobs_storage'.error_message = Text("exc", k, tasks'[t].end)
              /\ disk_job' = jobs_storage'
              /\ jobs_storage.paths \subseteq jobs_storage'.paths
              /\ jobs_storage'.paths \cap Produced(k)
                   = jobs_storage.paths \cap Produced(k)
       /\ tasks[t].st = "done" => tasks'[t] = tasks[t]]_vars

\* the merge service raised in a retry: the job is parked at merging with
\* the artifacts of the four steps before it still recorded
C7_Witness ==
  \E t \in DOMAIN tasks :
    /\ tasks[t].st = "done"
    /\ tasks[t].end = "engine"
    /\ tasks[t].ran = <<5>>
    /\ jobs_storage.status = "FAILED_MERGING_TARGET_CHUNKS"
    /\ jobs_storage.error_message = Text("exc", 5, "engine")
    /\ jobs_storage.paths = PathsUpTo(4)
    /\ disk_job = jobs_storage

\* a step of the behaviour made by retry_job
RetryRequest ==
  \/ last_retry' # last_retry
  \/ Len(tasks') > Len(tasks) /\ tasks'[Len(tasks')].is_retry

\* C8: a retry request for a job whose status is not FAILED or FAILED_<STEP>
\* is rejected: no task is scheduled and the job, its record on disk and
\* its files stay as they are
C8_RetryRejectedUnlessFailed ==
  [][(/\ RetryRequest
      /\ jobs_storage # NoJob
      /\ jobs_storage.status \notin FailedStatuses)
       => /\ last_retry' = 400
          /\ tasks' = tasks
          /\ jobs_storage' = jobs_storage
          /\ disk_job' = disk_job
          /\ files' = files]_vars

\* a retry of a job found in TRANSLATING_TO_TARGET was answered with 400
C8_Witness ==
  /\ last_retry = 400
  /\ jobs_storage.status = "TRANSLATING_TO_TARGET"
  /\ tasks = <<>>
  
\* C9 (as stated): after a restart that lost a task in the middle of a
\* step, a retry request for the job is accepted
C9_LostJobIsRetryable ==
  (/\ Len(tasks) > 0
   /\ tasks[Len(tasks)].st = "lost"
   /\ tasks[Len(tasks)].ran # <<>>)
    => jobs_storage.status \in FailedStatuses

\* C10 (as stated): at most one pipeline task of the job is between its
\* start and its return
C10_AtMostOneActiveTask ==
  Cardinality({t \in DOMAIN tasks : tasks[t].st = "calling"}) <= 1

\* C11 (as stated): while the service of a step is being called, the status
\* and the progress of the record on disk equal those of the job in memory
C11_DiskMatchesMemoryDuringCall ==
  (\E t \in DOMAIN tasks : tasks[t].st = "calling")
    => /\ disk_job.status = jobs_storage.status
       /\ disk_job.progress = jobs_storage.progress

\* the recorded path fields are those of the steps 1..j for some j
PrefixShaped(ps) ==
  \A j \in Steps :
    Produced(j) \cap ps # {} => \A i \in 1..j : Produced(i) \subseteq ps

\* C12: in every reachable state, with or without an injected test failure,
\* if a path field produced by step j is recorded then the path fields
\* produced by every step before j are recorded
C12_PathsFormPrefix == PrefixShaped(jobs_storage.paths)

\* a fresh run recorded the paths of preprocessing and stopped in step 2
C12_Witness ==
  \E t \in DOMAIN tasks :
    /\ ~tasks[t].is_retry
    /\ tasks[t].st = "done"
    /\ tasks[t].ran = <<1, 2>>
    /\ jobs_storage.paths = Produced(1)

\* C13 (as stated): with every service call succeeding and the client
\* retrying again and again, a job that failed at a step reaches COMPLETED
C13_RetriesReachCompleted ==
  (jobs_storage.status \in FailedStatuses) ~> (jobs_storage.status = "COMPLETED")

\* a run of the translation service begins
RunStarts == tr'.run = tr.run + 1

\* the chunks with a success file, and those with a sentinel error file
SuccessFiles == {i \in 1..MaxChunks : chunk_dir[i].ok # 0}
ErrorFiles == {i \in 1..MaxChunks : chunk_dir[i].err # 0}

IsPrefix(a, b) == Len(a) <= Len(b) /\ SubSeq(b, 1, Len(a)) = a

\* C14: no step of a regeneration (request, task, its failure) changes the
\* recorded final_target_audio_path or the files on disk it names, and the
\* version records before the step are a prefix of those after it, in memory
\* and in job.json
C14_RegenerationKeepsHistory ==
  [][/\ jobs_storage'.paths = jobs_storage.paths
     /\ disk_job'.paths = disk_job.paths
     /\ ("final_target_audio_path" \in files') = ("final_target_audio_path" \in files)
     /\ IsPrefix(jobs_storage.audio_versions, jobs_storage'.audio_versions)
     /\ IsPrefix(disk_job.audio_versions, disk_job'.audio_versions)]_vars

\* a second regeneration added its record to that of the first, and the
\* original audio is still recorded and on disk
C14_Witness ==
  /\ Len(jobs_storage.audio_versions) = 2
  /\ \A r \in DOMAIN regens : regens[r].end = "ok"
  /\ Present(jobs_storage, files, "final_target_audio_path")

\* C15: the version numbers of the records start at 2 and strictly increase,
\* so no two records have the same number, also when a second request was
\* accepted before the first regeneration finished
C15_VersionsIncreaseFromTwo ==
  LET versions == jobs_storage.audio_versions
  IN /\ versions # <<>> => versions[1].version = 2
     /\ \A i \in 1..(Len(versions) - 1) :
          versions[i].version < versions[i + 1].version

\* C16: a request that is accepted found the job COMPLETED, a speaking rate
\* from 0.5 to 2.0 and the chosen transcript recorded, on disk and with
\* dialogue in it; a request that is refused schedules no task and leaves
\* the job, job.json and the files as they were
C16_RegenerationAdmission ==
  [][(Len(regens') > Len(regens) \/ last_regen' # last_regen) =>
       IF Len(regens') > Len(regens)
       THEN /\ last_regen'.code = 200
            /\ Lookup.status = "COMPLETED"
            /\ last_regen'.rate \in 5..20
            /\ last_regen'.source \in {"target", "source"}
            /\ Present(Lookup, files, TranscriptField(last_regen'.source))
            /\ last_regen'.content = "dialogue"
       ELSE /\ last_regen'.code \in {400, 404}
            /\ regens' = regens
            /\ jobs_storage' = jobs_storage
            /\ disk_job' = disk_job
            /\ files' = files]_vars

\* a request was accepted and a later one for the same completed job refused
C16_Witness ==
  /\ last_regen.code = 400
  /\ jobs_storage.status = "COMPLETED"
  /\ \E r \in DOMAIN regens : regens[r].st = "pending"

\* C17: a run of the translation step that finds the success file of every
\* chunk calls the translator for no chunk and leaves every chunk file as
\* it was
C17_RerunOfTranslatedChunksCallsNothing ==
  [][(RunStarts /\ \A i \in 1..tr.n : chunk_dir[i].ok # 0)
       => /\ tr'.st \in {"returned", "raised"}
          /\ tr'.called = {}
          /\ chunk_dir' = chunk_dir]_vars

\* a second run returned without a call, the files being those of the first
C17_Witness ==
  /\ tr.run = 2
  /\ tr.st = "returned"
  /\ tr.n = 3
  /\ tr.called = {}
  /\ \A i \in 1..3 : chunk_dir[i].ok = 1 /\ chunk_dir[i].err = 0

\* C18 (as stated): a run of the translation step calls the translator for
\* no chunk that had a success file or a sentinel error file when it began
C18_NoCallForChunkWithFile == tr.called \cap tr.had = {}

\* C19 (as stated): when the translation step has returned, every chunk
\* 1..N has exactly one file, its success file or its sentinel error file,
\* and no other chunk has a file
C19_OneFilePerChunk ==
  tr.st = "returned" =>
    /\ SuccessFiles \cup ErrorFiles = 1..tr.n
    /\ SuccessFiles \cap ErrorFiles = {}

\* C20: a run on a new chunk directory in which the translator fails for
\* good on the chunks K never raises once it reads its input, sends every
\* chunk to the translator, leaves a sentinel file for the chunks of K and
\* a success file for the others; when K is not all the chunks the merge
\* that follows succeeds and reads exactly the success files
C20_PartialFailureStillMerges ==
  /\ [](( tr.had = {} /\ tr.st = "returned") =>
          /\ tr.called = 1..tr.n
          /\ ErrorFiles = tr.exhausted
          /\ SuccessFiles = (1..tr.n) \ tr.exhausted
          /\ (tr.merge # "" /\ tr.exhausted # 1..tr.n)
               => /\ tr.merge = "ok"
                  /\ tr.merged = Sorted((1..tr.n) \ tr.exhausted))
  /\ [][tr.st = "running" => tr'.st # "raised"]_vars

\* three chunks, the second failed for good, the merge read chunks 1 and 3
C20_Witness ==
  /\ tr.had = {}
  /\ tr.st = "returned"
  /\ tr.n = 3
  /\ tr.exhausted = {2}
  /\ tr.merge = "ok"
  /\ tr.merged = <<1, 3>>
  /\ chunk_dir[2].err # 0 /\ chunk_dir[2].ok = 0

\* C21: when the translator failed for good on every chunk of a run, the
\* translation step raised: the service did not return normally
C21_AllChunksFailedRaises ==
  (tr.n > 0 /\ tr.exhausted = 1..tr.n) => tr.st # "returned"

\* C22: when the speech engine fails on every segment of a run that found no
\* segment file on disk, the run raises and leaves no final file; and a final
\* file is never merged from silence placeholders alone
C22_AllSegmentsFailedRaises ==
  output.done =>
    /\ (/\ input.segments # <<>>
        /\ failed_segments(input.segments) = DOMAIN input.segments
        /\ input.existing = {})
         => (output.raised /\ output.final = <<>>)
    /\ output.final # <<>> => \E i \in DOMAIN output.final : output.final[i] # "silence"

\* C29: a job whose status is FAILED or FAILED_<STEP> has an error_message
\* that is not None and a message that is not empty
C29_ParkedJobHasMessages ==
  jobs_storage.status \in FailedStatuses =>
    /\ jobs_storage.error_message # None
    /\ jobs_storage.message # Text("", 0, "")

\* the input artifact of step k is recorded in the job and exists on disk
InputPresent(job, fs, k) ==
  IF k = 1 THEN "original_file_path" \in fs ELSE Present(job, fs, InputOf(k))

\* C30: a retry of a job whose status is FAILED_<STEP> while the input
\* artifact of that step is not recorded or not on disk resumes where the
\* probing of the artifacts, newest first, says
C30_InconsistentStatusFallsBackToProbing ==
  [][\A t \in DOMAIN tasks : \A k \in Steps :
       (/\ Starts(t)
        /\ tasks[t].is_retry
        /\ jobs_storage.status = FailedStepStatus[k]
        /\ ~InputPresent(jobs_storage, files, k))
         => tasks'[t].resume_from = probe_artifacts(jobs_storage, files)]_vars

\* C28: cleaning the cleaned text changes nothing
C28_CleaningIsIdempotent ==
  output.done => output.twice = output.once

\* the chunk numbers whose success file can be read and is not blank
UsableChunks == {idx \in ChunkNumbers : input.options[idx].ok \in {"marker", "text"}}

\* C23: the merged document holds the success files in ascending order of
\* their chunk numbers, one part for each success file with content and none
\* for any other chunk number, and no line of a sentinel file
C23_MergedInNumericOrder ==
  (output.done /\ ~output.raised) =>
    /\ \A i, j \in DOMAIN output.nums : i < j => output.nums[i] < output.nums[j]
    /\ {output.nums[i] : i \in DOMAIN output.nums} = UsableChunks
    /\ \A i \in DOMAIN output.lines : output.lines[i] # SentinelContent[1]
    /\ Cardinality({i \in DOMAIN output.lines : output.lines[i] = TextContent[1]})
         = Cardinality({idx \in ChunkNumbers : input.options[idx].ok = "text"})

\* chunk_002.txt, chunk_999.txt and chunk_1000.txt merged in this order from
\* a directory that also holds a sentinel file
C23_Witness ==
  /\ output.done
  /\ ~output.raised
  /\ output.nums = <<2, 999, 1000>>
  /\ \E idx \in ChunkNumbers : input.options[idx].err

\* C24: the merge raises exactly when the directory is missing or no success
\* file in it can be read and is not blank; a success file that is blank or
\* cannot be read is left out of the merged document
C24_MergeRaisesOnlyWithoutContent ==
  output.done =>
    /\ output.raised <=> (~input.exists \/ UsableChunks = {})
    /\ \A i \in DOMAIN output.nums :
         input.options[output.nums[i]].ok \notin {"blank", "unreadable", "absent"}

\* a blank and an unreadable success file were skipped, the third was merged
C24_Witness ==
  /\ output.done
  /\ ~output.raised
  /\ input.options[2].ok = "blank"
  /\ input.options[999].ok = "unreadable"
  /\ output.nums = <<1000>>

\* what is said in a text, in order: each word of a line paired with the
\* speaker of the line; a line without a label goes on with the speaker
\* before it; blanks and chunk markers are not words
RECURSIVE TurnContent(_, _)
TurnContent(lines, speaker) ==
  IF lines = <<>> THEN <<>>
  ELSE LET line == Strip(lines[1])
           spk == IF IsSpeakerLine(line) THEN line[1] ELSE speaker
           body == IF IsSpeakerLine(line) THEN Tail(line) ELSE line
           words == SelectSeq(body, LAMBDA tok : tok \notin {" ", Marker})
       IN [i \in 1..Len(words) |-> <<spk, words[i]>>]
            \o TurnContent(Tail(lines), spk)

\* C26: every chunk begins with a speaker label and holds no other, holds at
\* least one sentence, and the chunks read in order say what the transcript
\* says, each sentence under its speaker
C26_ChunksCarryOneSpeaker ==
  output.done =>
    /\ \A i \in DOMAIN output.chunks :
         LET chunk == output.chunks[i]
         IN /\ IsSpeakerLine(chunk)
            /\ \A k \in 2..Len(chunk) : chunk[k] \notin SpeakerLabels
            /\ \E k \in DOMAIN chunk : chunk[k] \in Sentences
    /\ TurnContent(output.chunks, "") = TurnContent(input.lines, "Speaker A:")

\* C27: a transcript of one line with one sentence longer than the chunk
\* width is split into exactly one chunk, which holds the sentence
C27_LongSentenceIsOneChunk ==
  (/\ output.done
   /\ Len(input.lines) = 1
   /\ \E s \in Sentences :
        /\ TokenLen(s) > input.chunk_width
        /\ SelectSeq(input.lines[1], LAMBDA tok : tok \in Sentences) = <<s>>)
    => /\ Len(output.chunks) = 1
       /\ SelectSeq(output.chunks[1], LAMBDA tok : tok \in Sentences)
            = SelectSeq(input.lines[1], LAMBDA tok : tok \in Sentences)

\* C25: with a chunk width of at least the longest sentence, the merged
\* document of the unmodified chunks says what the transcript says: the same
\* words under the same speakers in the same order
C25_SplitThenMergeKeepsTurns ==
  (/\ output.done
   /\ \A i \in DOMAIN input.lines : \A k \in DOMAIN input.lines[i] :
        input.lines[i][k] \in Sentences
          => TokenLen(input.lines[i][k]) <= input.chunk_width)
    => /\ ~output.merged.raised
       /\ TurnContent(output.merged.lines, "")
            = TurnContent(input.lines, "Speaker A:")

\* where task t stands; "" when no such task was scheduled
TaskState(t) == IF t \in DOMAIN tasks THEN tasks[t].st ELSE ""

\* the statuses a run leaves behind
ParkedStatuses == {"COMPLETED", "FAILED"} \cup {FailedStepStatus[k] : k \in Steps}

\* C31: a run that was scheduled, fresh or retry, comes to its end when every
\* awaited service call returns or raises, and at its end the job is
\* COMPLETED, FAILED or FAILED_<STEP>, in memory and in job.json
C31_RunsEndParked ==
  /\ [][\A t \in DOMAIN tasks :
          (tasks[t].st # "done" /\ tasks'[t].st = "done")
            => /\ jobs_storage'.status \in ParkedStatuses
               /\ disk_job' = jobs_storage']_vars
  /\ \A t \in 1..MaxTasks :
       (TaskState(t) \in {"pending", "calling"}) ~> (TaskState(t) = "done")

\* a fresh run ended in the outer handler, the retry that followed ended in
\* the handler of the first step
C31_Witness ==
  /\ Len(tasks) = 2
  /\ tasks[1].st = "done" /\ ~tasks[1].is_retry /\ tasks[1].end = "ctor"
  /\ tasks[2].st = "done" /\ tasks[2].is_retry /\ tasks[2].end = "engine"
  /\ jobs_storage.status = "FAILED_PREPROCESSING_AUDIO"

\* a step of the behaviour taken by the fresh run t
FreshRunStep(t) ==
  /\ ~tasks[t].is_retry
  /\ tasks[t].st \in {"pending", "calling"}
  /\ tasks'[t] # tasks[t]

\* C32: in every step of a fresh run the progress stays or grows and lies in
\* 0..100, the value written after a service returned included, whether the
\* run goes on, ends in a step failure or in the outer handler
C32_FreshRunProgressGrows ==
  [][\A t \in DOMAIN tasks :
       FreshRunStep(t) =>
         /\ jobs_storage.progress <= jobs_storage'.progress
         /\ jobs_storage'.progress \in 0..100
         /\ (tasks[t].st = "calling" /\ tasks'[t].end # "engine"
               /\ (tasks'[t].ran # tasks[t].ran \/ tasks'[t].end = "completed"))
              => /\ jobs_storage.progress <= progress_on_success[tasks[t].step]
                 /\ progress_on_success[tasks[t].step] <= jobs_storage'.progress]_vars

\* a fresh run went through preprocessing and stopped in the handler of the
\* transcription step with the progress that step was entered with
C32_Witness ==
  /\ Len(tasks) = 1
  /\ ~tasks[1].is_retry
  /\ tasks[1].st = "done"
  /\ tasks[1].ran = <<1, 2>>
  /\ jobs_storage.status = "FAILED_TRANSCRIBING_SOURCE"
  /\ jobs_storage.progress = 20

\* C33: a job exists only with two different languages, and the step that
\* creates it leaves it UPLOADED with progress 0, saved, with one fresh task
\* scheduled; no fresh task is scheduled in any other step
C33_UploadedJobHasTwoLanguages ==
  [][/\ jobs_storage' # NoJob
          => jobs_storage'.source_language # jobs_storage'.target_language
     /\ (jobs_storage = NoJob /\ jobs_storage' # NoJob)
          => /\ jobs_storage'.status = "UPLOADED"
             /\ jobs_storage'.progress = 0
             /\ jobs_storage'.paths = {}
             /\ disk_job' = jobs_storage'
             /\ tasks' = Append(tasks, NewTask(FALSE))
     /\ (Len(tasks') > Len(tasks) /\ ~tasks'[Len(tasks')].is_retry)
          => jobs_storage = NoJob /\ jobs_storage' # NoJob]_vars

\* an upload from Japanese to English was accepted and its task waits
C33_Witness ==
  /\ jobs_storage.status = "UPLOADED"
  /\ jobs_storage.progress = 0
  /\ jobs_storage.source_language = "ja"
  /\ jobs_storage.target_language = "en"
  /\ Len(tasks) = 1
  /\ tasks[1].st = "pending"

\* C34: when a service constructor raises at the start of a run, fresh or
\* retry, the job becomes FAILED with the exception text as error_message,
\* the record is saved, no step is entered and no service is called, and the
\* recorded paths and the files stay as they were
C34_OuterFailureParksInFailed ==
  [][\A t \in DOMAIN tasks :
       (Starts(t) /\ tasks'[t].end = "ctor")
         => /\ jobs_storage'.status = "FAILED"
            /\ jobs_storage'.error_message # None
            /\ jobs_storage'.error_message = Text("exc", 0, "ctor")
            /\ disk_job' = jobs_storage'
            /\ tasks'[t].st = "done"
            /\ tasks'[t].ran = <<>>
            /\ tasks'[t].invoked = {}
            /\ jobs_storage'.paths = jobs_storage.paths
            /\ jobs_storage'.progress = jobs_storage.progress
            /\ files' = files]_vars

\* a retry of a job parked at merging ended in the outer handler: FAILED,
\* with the artifacts of the first four steps still recorded
C34_Witness ==
  \E t \in DOMAIN tasks :
    /\ tasks[t].is_retry
    /\ tasks[t].st = "done"
    /\ tasks[t].end = "ctor"
    /\ tasks[t].seen = "FAILED_MERGING_TARGET_CHUNKS"
    /\ jobs_storage.status = "FAILED"
    /\ jobs_storage.error_message = Text("exc", 0, "ctor")
    /\ jobs_storage.paths = PathsUpTo(4)

\* C35: for a job parked in FAILED_<STEP k> the probe of the artifacts
\* names the same first step as the status table, and a retry that follows
\* a retry stopped by the outer handler starts at the step the first of the
\* two was to start at
C35_ProbingAgreesWithStatus ==
  /\ [](jobs_storage.status \in DOMAIN failure_to_resume_map
          => NextStep(probe_artifacts(jobs_storage, files), 1)
               = NextStep(failure_to_resume_map[jobs_storage.status], 1))
  /\ [][\A t \in DOMAIN tasks :
          (/\ t > 1
           /\ Starts(t)
           /\ tasks[t].is_retry
           /\ tasks'[t].end # "ctor"
           /\ tasks[t - 1].end = "ctor"
           /\ tasks[t - 1].seen \in DOMAIN failure_to_resume_map)
            => /\ tasks'[t].ran # <<>>
               /\ tasks'[t].ran[1]
                    = StepIndex(failure_to_resume_map[tasks[t - 1].seen])]_vars

\* C36: a job whose status is COMPLETED has progress 100, in memory and in
\* job.json
C36_CompletedHasFullProgress ==
  /\ jobs_storage.status = "COMPLETED" => jobs_storage.progress = 100
  /\ disk_job.status = "COMPLETED" => disk_job.progress = 100

\* the fields of a job record that regeneration is not to touch
PipelineFields(job) ==
  <<job.status, job.progress, job.error_message, job.paths>>

\* C37: a step of a regeneration (the request, the start of the task, its
\* return or its failure) leaves status, progress, error_message and the
\* path fields as they were, in memory and in job.json; the job is
\* COMPLETED as long as a regeneration exists; and a step in which a
\* regeneration fails changes nothing but the message
C37_RegenerationTouchesOnlyVersions ==
  /\ [](regens # <<>> => jobs_storage.status = "COMPLETED")
  /\ [][regens' # regens =>
          /\ PipelineFields(jobs_storage') = PipelineFields(Lookup)
          /\ PipelineFields(disk_job') = PipelineFields(disk_job)
          /\ \A r \in DOMAIN regens :
               (regens[r].end = "" /\ regens'[r].end = "failed")
                 => /\ jobs_storage' = [jobs_storage EXCEPT !.message = jobs_storage'.message]
                    /\ jobs_storage'.audio_versions = jobs_storage.audio_versions
                    /\ disk_job'.audio_versions = disk_job.audio_versions]_vars

\* one regeneration failed and one added its record; the job is COMPLETED
\* with progress 100 and the message of the last of them
C37_Witness ==
  /\ Len(regens) = 2
  /\ regens[1].end = "failed"
  /\ regens[2].end = "ok"
  /\ jobs_storage.status = "COMPLETED"
  /\ jobs_storage.progress = 100
  /\ Len(jobs_storage.audio_versions) = 1

\* C38: in the second run of the audio step a segment is passed over only
\* when the engine answered for it in the first run; a segment that got a
\* silence placeholder in the first run is sent to the engine again
C38_SilencedSegmentIsSynthesizedAgain ==
  (output.done /\ output.run = 2) =>
    \A i \in DOMAIN input.first :
      /\ i \notin output.submitted => input.first[i] = "ok"
      /\ input.first[i] = "fail" => i \in output.submitted

\* C39: without test injection, restarts or removed files, no step of any
\* behaviour lowers the progress of a job, in memory or in job.json
C39_ProgressNeverDecreases ==
  [][/\ jobs_storage # NoJob => jobs_storage'.progress >= jobs_storage.progress
     /\ disk_job # NoJob => disk_job'.progress >= disk_job.progress]_vars

\* the marker lines of a text
MarkerLines(lines) == {i \in DOMAIN lines : Marker \in {lines[i][k] : k \in DOMAIN lines[i]}}

\* C40 (as stated): the document the merge step writes has no marker line
C40_MergedHasNoMarker ==
  (output.done /\ ~output.raised) => MarkerLines(output.lines) = {}

\* C40 (amended): the document the merge step writes begins with a marker
\* line and has one marker line for each chunk merged, the one put before
\* the chunk (marker lines inside the content of a chunk are removed); the
\* first pass of the cleaning step takes them all out
C40_MergedKeepsOneMarkerPerChunk ==
  (output.done /\ ~output.raised) =>
    /\ output.lines[1] = <<Marker>>
    /\ \A i \in MarkerLines(output.lines) : output.lines[i] = <<Marker>>
    /\ Cardinality(MarkerLines(output.lines)) = Len(output.nums)
    /\ MarkerLines(remove_chunk_markers(output.lines)) = {}

\* two chunks were merged, one of them a file that held a marker line only:
\* the document has two marker lines
C40_Witness ==
  /\ output.done
  /\ ~output.raised
  /\ input.options[2].ok = "marker"
  /\ input.options[999].ok = "text"
  /\ output.nums = <<2, 999>>
  /\ Cardinality(MarkerLines(output.lines)) = 2

====
